---- MODULE Spec2Model ----
(***************************************************************************)
(* A model of the Hikari bytecode VM: the value stack, the call-frame      *)
(* stack, the exception-handler stack, the microtask queue, the PromiseV1  *)
(* objects and the event loop of VM.interpret.                             *)
(*                                                                         *)
(* Bytecode is modelled one instruction per sequence element (operands     *)
(* held in the instruction record); ip is the 1-based index of the next    *)
(* instruction, jump offsets are relative to the ip after the operands     *)
(* were read, as in the handlers.  stackBase and frameIndex keep the       *)
(* 0-based values of the source.                                           *)
(***************************************************************************)
EXTENDS Integers, Sequences, FiniteSets, TLC

VARIABLES
    stack,              \* VM.stack
    callFrames,         \* VM.callFrames
    exceptionHandlers,  \* VM.exceptionHandlers
    microtaskQueue,     \* VM.microtaskQueue
    globals,            \* VM.globals
    pendingHostOps,     \* VM.pendingHostOps
    hasError,           \* VM.hasError
    promises,           \* the PromiseV1 objects allocated so far, by id
    timers,             \* host timers armed by setTimeout and not yet fired
    openUpvalues,       \* VM.openUpvalues: the first open Upvalue, 0 for null
    activeCoroutine,    \* VM.activeCoroutine: the generator being resumed, 0 for null
    heap,               \* the objects allocated so far: closures, upvalues, objects
    log,                \* what console.log / console.error / host callbacks printed
    phase,              \* position inside VM.interpret ("host" for direct API use,
                        \* "compile" / "compiled" around Compiler.compile)
    outcome,            \* what interpret returned
    hist,               \* history: ids handed out, last runtime error, API calls made
    compiler            \* the Compiler: the program it is given and its CompilerState

vars == <<stack, callFrames, exceptionHandlers, microtaskQueue, globals,
          pendingHostOps, hasError, promises, timers, openUpvalues, activeCoroutine,
          heap, log, phase, outcome, hist, compiler>>

-----------------------------------------------------------------------------
(* Bounds of the model *)

MaxPromises == 3   \* promises the host may allocate (constructor and then) in a direct-API run
MaxDepth == 257    \* call frames a run may hold before it is cut off
MaxCalls == 2      \* settling calls the host may make in a direct-API run
MaxNest == 4       \* loops nested around the break or continue of a compiled program
MaxIndex == 255   \* the largest index a one-byte operand holds

MAX_CALL_FRAMES == 256

-----------------------------------------------------------------------------
(* Values *)

Val(t, n, s) == [t |-> t, n |-> n, s |-> s]
Null == Val("null", 0, "")
Undef == Val("undefined", 0, "")
Absent == Val("absent", 0, "")
Num(n) == Val("number", n, "")
Str(s) == Val("string", 0, s)
PromiseVal(p) == Val("promise", p, "")
NativeVal(name, p) == Val("native", p, name)
Bool(b) == Val("boolean", IF b THEN 1 ELSE 0, "")
\* a Closure object of the heap (id) over the function named f
ClosureRef(id, f) == Val("closure", id, f)
\* a VM object, a plain host object or a GeneratorObject of the heap
ObjectVal(id) == Val("object", id, "")
\* Further values: Val("wrapper", id, f) is the host arrow function CALL_METHOD wraps
\* the Closure id in, Val("function", 0, name) a host function that is not wrapped in
\* a NativeObject, Val("properties", id, "") the `properties` record of VM object id
\* seen as a host object, Val("timer", id, "") the handle setTimeout returns.

\* String(v) as OP_THROW applies it to the popped value
ToStringJS(v) ==
    CASE v.t = "string" -> v
      [] v.t = "number" -> IF v.n = 0 THEN Str("0")
                           ELSE IF v.n \in 1..10
                           THEN Str(<<"1", "2", "3", "4", "5", "6", "7", "8", "9", "10">>[v.n])
                           ELSE Str("NaN")
      [] v.t = "null" -> Str("null")
      [] v.t = "undefined" -> Str("undefined")
      [] OTHER -> Str("[object Object]")

\* `result === undefined ? null : result`
UndefToNull(v) == IF v.t = "undefined" THEN Null ELSE v

-----------------------------------------------------------------------------
(* Programs: the bytecode the compiler emits for a few scripts *)

Ins(op, a, k) == [op |-> op, a |-> a, k |-> k]

EmitReturn == << Ins("PUSH_NULL", 0, Null), Ins("RETURN", 0, Null) >>

\* let {x, value} = {x: 1, value: 2};   where defineVariable emits SET_LOCAL for a
\* local (the names take the slots from `slot` on) and DEFINE_GLOBAL at script scope
Destructure(define, slot) ==
    << Ins("CONSTANT", 0, Str("x")), Ins("CONSTANT", 0, Num(1)),
       Ins("CONSTANT", 0, Str("value")), Ins("CONSTANT", 0, Num(2)),
       Ins("NEW_OBJECT", 2, Null),
       Ins("DUPLICATE", 0, Null), Ins("GET_PROPERTY_PROTO", 0, Str("x")),
       Ins(define, slot, Str("x")), Ins("POP", 0, Null),
       Ins("DUPLICATE", 0, Null), Ins("GET_PROPERTY_PROTO", 0, Str("value")),
       Ins(define, slot + 1, Str("value")), Ins("POP", 0, Null),
       Ins("POP", 0, Null) >>

\* upvalues: the {isLocal, index} pairs the compiler emits after OP_CLOSURE
FunctionObject(arity, code, upvalues, isGenerator, isAsync) ==
    [arity |-> arity, isAsync |-> isAsync, isGenerator |-> isGenerator,
     upvalues |-> upvalues, code |-> code]

Fn(arity, isAsync, code) == FunctionObject(arity, code, <<>>, FALSE, isAsync)

Funcs ==
    LET LogStmt(s) ==
            << Ins("GET_NATIVE", 0, Str("console")), Ins("CONSTANT", 0, Str(s)),
               Ins("CALL_METHOD", 1, Str("log")), Ins("POP", 0, Null) >>
        CallStmt(name) ==
            << Ins("GET_GLOBAL", 0, Str(name)), Ins("CALL", 0, Null), Ins("POP", 0, Null) >>
        FunDecl(name) ==
            << Ins("CLOSURE", 0, Str(name)), Ins("DEFINE_GLOBAL", 0, Str(name)) >>
        \* let name = callee();
        LetCall(name, callee) ==
            << Ins("GET_GLOBAL", 0, Str(callee)), Ins("CALL", 0, Null),
               Ins("DEFINE_GLOBAL", 0, Str(name)) >>
        \* console.log(callee());
        LogCall(callee) ==
            << Ins("GET_NATIVE", 0, Str("console")), Ins("GET_GLOBAL", 0, Str(callee)),
               Ins("CALL", 0, Null), Ins("CALL_METHOD", 1, Str("log")), Ins("POP", 0, Null) >>
        \* yield v;   (the argument is visited by the traversal and again by the exit handler)
        YieldStmt(v) ==
            << Ins("CONSTANT", 0, v), Ins("CONSTANT", 0, v), Ins("YIELD", 0, Null),
               Ins("POP", 0, Null) >>
        \* console.log(name.next().value);
        LogNext(name) ==
            << Ins("GET_NATIVE", 0, Str("console")), Ins("GET_GLOBAL", 0, Str(name)),
               Ins("CALL_METHOD", 0, Str("next")), Ins("GET_PROPERTY_PROTO", 0, Str("value")),
               Ins("CALL_METHOD", 1, Str("log")), Ins("POP", 0, Null) >>
        \* console.log(name.prop);
        LogProp(name, prop) ==
            << Ins("GET_NATIVE", 0, Str("console")), Ins("GET_GLOBAL", 0, Str(name)),
               Ins("GET_PROPERTY_PROTO", 0, Str(prop)), Ins("CALL_METHOD", 1, Str("log")),
               Ins("POP", 0, Null) >>
        \* name.method();
        MethodStmt(name, method) ==
            << Ins("GET_GLOBAL", 0, Str(name)), Ins("CALL_METHOD", 0, Str(method)),
               Ins("POP", 0, Null) >>
        \* what ClassDeclaration emits after the class variable is defined, for a class with
        \* the one method greet(){ return "hi"; }, and then console.log(new name().greet());
        ClassRest(name) ==
            << Ins("GET_GLOBAL", 0, Str(name)), Ins("GET_PROTOTYPE", 0, Null),
               Ins("CLOSURE", 0, Str("greet")), Ins("SET_PROPERTY_PROTO", 0, Str("greet")),
               Ins("POP", 0, Null),
               Ins("GET_NATIVE", 0, Str("console")), Ins("GET_GLOBAL", 0, Str(name)),
               Ins("NEW", 0, Null), Ins("CALL_METHOD", 0, Str("greet")),
               Ins("CALL_METHOD", 1, Str("log")), Ins("POP", 0, Null) >>
    IN
    [ \* tests/async.js
      mainDelay |-> Fn(0, FALSE,
          FunDecl("delayedHello") \o CallStmt("delayedHello") \o LogStmt("A") \o EmitReturn),
      delayedHello |-> Fn(0, TRUE,
          << Ins("GET_NATIVE", 0, Str("Promise")), Ins("CLOSURE", 0, Str("timerExec")),
             Ins("NEW", 1, Null), Ins("AWAIT", 0, Null), Ins("POP", 0, Null) >>
          \o LogStmt("B") \o EmitReturn),
      timerExec |-> Fn(1, FALSE,
          << Ins("GET_GLOBAL", 0, Str("setTimeout")), Ins("GET_LOCAL", 1, Null),
             Ins("CONSTANT", 0, Num(10)), Ins("CALL", 2, Null), Ins("RETURN", 0, Null) >>),
      \* async function f(){ console.log("f"); } async function g(x){ console.log(x); }
      \* f(); g("g"); console.log("m");
      mainTwo |-> Fn(0, FALSE,
          FunDecl("f") \o FunDecl("g") \o CallStmt("f")
          \o << Ins("GET_GLOBAL", 0, Str("g")), Ins("CONSTANT", 0, Str("g")),
                Ins("CALL", 1, Null), Ins("POP", 0, Null) >>
          \o LogStmt("m") \o EmitReturn),
      f |-> Fn(0, TRUE, LogStmt("f") \o EmitReturn),
      g |-> Fn(1, TRUE,
          << Ins("GET_NATIVE", 0, Str("console")), Ins("GET_LOCAL", 1, Null),
             Ins("CALL_METHOD", 1, Str("log")), Ins("POP", 0, Null) >>
          \o EmitReturn),
      \* async function boom(){ throw "e"; } boom();
      mainBoom |-> Fn(0, FALSE, FunDecl("boom") \o CallStmt("boom") \o EmitReturn),
      boom |-> Fn(0, TRUE, << Ins("CONSTANT", 0, Str("e")), Ins("THROW", 0, Null) >>),
      \* function a(){throw "e";} function b(){a();} try{b();}catch(e){console.log(e);}
      mainNested |-> Fn(0, FALSE,
          FunDecl("a") \o FunDecl("b")
          \o << Ins("SETUP_TRY", 5, Null) >> \o CallStmt("b")
          \o << Ins("POP_CATCH", 0, Null), Ins("JUMP", 5, Null),
                Ins("SET_LOCAL", 1, Null),
                Ins("GET_NATIVE", 0, Str("console")), Ins("GET_LOCAL", 1, Null),
                Ins("CALL_METHOD", 1, Str("log")), Ins("POP", 0, Null) >>
          \o EmitReturn),
      a |-> Fn(0, FALSE, << Ins("CONSTANT", 0, Str("e")), Ins("THROW", 0, Null) >>),
      b |-> Fn(0, FALSE, CallStmt("a") \o EmitReturn),
      \* function early(){ try { console.log("t"); return 1; } catch(e){} } early(); throw "x";
      mainEarly |-> Fn(0, FALSE,
          FunDecl("early") \o CallStmt("early")
          \o << Ins("CONSTANT", 0, Str("x")), Ins("THROW", 0, Null) >> \o EmitReturn),
      early |-> Fn(0, FALSE,
          << Ins("SETUP_TRY", 8, Null) >> \o LogStmt("t")
          \o << Ins("CONSTANT", 0, Num(1)), Ins("RETURN", 0, Null),
                Ins("POP_CATCH", 0, Null), Ins("JUMP", 1, Null), Ins("SET_LOCAL", 1, Null) >>
          \o EmitReturn),
      \* async function guarded(){ try { throw "e"; } catch(x){ console.log("c"); } } guarded();
      mainGuarded |-> Fn(0, FALSE, FunDecl("guarded") \o CallStmt("guarded") \o EmitReturn),
      guarded |-> Fn(0, TRUE,
          << Ins("SETUP_TRY", 4, Null), Ins("CONSTANT", 0, Str("e")), Ins("THROW", 0, Null),
             Ins("POP_CATCH", 0, Null), Ins("JUMP", 5, Null), Ins("SET_LOCAL", 1, Null) >>
          \o LogStmt("c") \o EmitReturn),
      \* async function waiter(){ try { await new Promise((res, rej) => rej("r")); }
      \*                          catch(x){ console.log("c"); } } waiter();
      mainWaiter |-> Fn(0, FALSE, FunDecl("waiter") \o CallStmt("waiter") \o EmitReturn),
      waiter |-> Fn(0, TRUE,
          << Ins("SETUP_TRY", 7, Null), Ins("GET_NATIVE", 0, Str("Promise")),
             Ins("CLOSURE", 0, Str("rejExec")), Ins("NEW", 1, Null), Ins("AWAIT", 0, Null),
             Ins("POP", 0, Null), Ins("POP_CATCH", 0, Null), Ins("JUMP", 5, Null),
             Ins("SET_LOCAL", 1, Null) >>
          \o LogStmt("c") \o EmitReturn),
      rejExec |-> Fn(2, FALSE,
          << Ins("GET_LOCAL", 2, Null), Ins("CONSTANT", 0, Str("r")),
             Ins("CALL", 1, Null), Ins("RETURN", 0, Null) >>),
      \* the closure counter test:
      \* function outer(){ let x = 0; return function inner(){ return ++x; } }
      \* let f1 = outer(); let f2 = outer(); console.log(f1()); ... f1, f2, f1, f2
      mainCounter |-> Fn(0, FALSE,
          FunDecl("outer") \o LetCall("f1", "outer") \o LetCall("f2", "outer")
          \o LogCall("f1") \o LogCall("f1") \o LogCall("f2") \o LogCall("f1")
          \o LogCall("f2") \o EmitReturn),
      outer |-> Fn(0, FALSE,
          << Ins("CONSTANT", 0, Num(0)), Ins("SET_LOCAL", 1, Null),
             Ins("CLOSURE", 0, Str("inner")), Ins("RETURN", 0, Null) >>),
      inner |-> FunctionObject(0,
          << Ins("INCREMENT_UPVALUE", 0, Null), Ins("RETURN", 0, Null) >>,
          << [isLocal |-> TRUE, index |-> 1] >>, FALSE, FALSE),
      \* function mk(){ let x = null; return function swap(v){ let old = x; x = v; return old; } }
      \* let s1 = mk(); let s2 = mk(); s1(7); console.log(s2(8));
      mainCells |-> Fn(0, FALSE,
          FunDecl("mk") \o LetCall("s1", "mk") \o LetCall("s2", "mk")
          \o << Ins("GET_GLOBAL", 0, Str("s1")), Ins("CONSTANT", 0, Num(7)),
                Ins("CALL", 1, Null), Ins("POP", 0, Null),
                Ins("GET_NATIVE", 0, Str("console")), Ins("GET_GLOBAL", 0, Str("s2")),
                Ins("CONSTANT", 0, Num(8)), Ins("CALL", 1, Null),
                Ins("CALL_METHOD", 1, Str("log")), Ins("POP", 0, Null) >>
          \o EmitReturn),
      mk |-> Fn(0, FALSE,
          << Ins("PUSH_NULL", 0, Null), Ins("SET_LOCAL", 1, Null),
             Ins("CLOSURE", 0, Str("swap")), Ins("RETURN", 0, Null) >>),
      swap |-> FunctionObject(1,
          << Ins("GET_UPVALUE", 0, Null), Ins("SET_LOCAL", 2, Null),
             Ins("GET_LOCAL", 1, Null), Ins("SET_UPVALUE", 0, Null), Ins("POP", 0, Null),
             Ins("GET_LOCAL", 2, Null), Ins("RETURN", 0, Null) >>,
          << [isLocal |-> TRUE, index |-> 1] >>, FALSE, FALSE),
      \* tests/generators.js, with two more calls of next
      mainGen |-> Fn(0, FALSE,
          FunDecl("count") \o LetCall("gen", "count")
          \o LogNext("gen") \o LogNext("gen") \o LogNext("gen") \o LogNext("gen")
          \o LogNext("gen") \o EmitReturn),
      count |-> FunctionObject(0,
          YieldStmt(Num(1)) \o YieldStmt(Num(2)) \o YieldStmt(Num(3)) \o EmitReturn,
          <<>>, TRUE, FALSE),
      \* function* count(){...} function nop(){}
      \* let gen = count(); gen.next(); gen.return(nop); gen.next();
      mainGenReturn |-> Fn(0, FALSE,
          FunDecl("count") \o FunDecl("nop") \o LetCall("gen", "count")
          \o MethodStmt("gen", "next")
          \o << Ins("GET_GLOBAL", 0, Str("gen")), Ins("GET_GLOBAL", 0, Str("nop")),
                Ins("CALL_METHOD", 1, Str("return")), Ins("POP", 0, Null) >>
          \o MethodStmt("gen", "next") \o EmitReturn),
      nop |-> Fn(0, FALSE, EmitReturn),
      \* function nop(){} let h = setTimeout(nop, 10); h.clear(); h.clear();
      mainClear |-> Fn(0, FALSE,
          FunDecl("nop")
          \o << Ins("GET_GLOBAL", 0, Str("setTimeout")), Ins("GET_GLOBAL", 0, Str("nop")),
                Ins("CONSTANT", 0, Num(10)), Ins("CALL", 2, Null),
                Ins("DEFINE_GLOBAL", 0, Str("h")) >>
          \o MethodStmt("h", "clear") \o MethodStmt("h", "clear") \o EmitReturn),
      \* async function five(){ return 5; } five(); return 7;
      mainFive |-> Fn(0, FALSE,
          FunDecl("five") \o CallStmt("five")
          \o << Ins("CONSTANT", 0, Num(7)), Ins("RETURN", 0, Null) >>),
      five |-> Fn(0, TRUE, << Ins("CONSTANT", 0, Num(5)), Ins("RETURN", 0, Null) >>),
      \* function C(){ new C(); } new C();
      mainDeep |-> Fn(0, FALSE,
          FunDecl("C")
          \o << Ins("GET_GLOBAL", 0, Str("C")), Ins("NEW", 0, Null), Ins("POP", 0, Null) >>
          \o EmitReturn),
      C |-> Fn(0, FALSE,
          << Ins("GET_GLOBAL", 0, Str("C")), Ins("NEW", 0, Null), Ins("POP", 0, Null) >>
          \o EmitReturn),
      \* function r(){ r(); } r();
      mainRec |-> Fn(0, FALSE, FunDecl("r") \o CallStmt("r") \o EmitReturn),
      r |-> Fn(0, FALSE, CallStmt("r") \o EmitReturn),
      \* function nop(){} new nop(1);
      mainNewArg |-> Fn(0, FALSE,
          FunDecl("nop")
          \o << Ins("GET_GLOBAL", 0, Str("nop")), Ins("CONSTANT", 0, Num(1)),
                Ins("NEW", 1, Null), Ins("POP", 0, Null) >>
          \o EmitReturn),
      \* try { throw 1; } catch (e) { console.log(e); }
      mainThrowNum |-> Fn(0, FALSE,
          << Ins("SETUP_TRY", 4, Null), Ins("CONSTANT", 0, Num(1)), Ins("THROW", 0, Null),
             Ins("POP_CATCH", 0, Null), Ins("JUMP", 5, Null), Ins("SET_LOCAL", 1, Null),
             Ins("GET_NATIVE", 0, Str("console")), Ins("GET_LOCAL", 1, Null),
             Ins("CALL_METHOD", 1, Str("log")), Ins("POP", 0, Null) >>
          \o EmitReturn),
      \* let o = { properties: 5 }; console.log(o.x); console.log(o.properties);
      mainProps |-> Fn(0, FALSE,
          << Ins("CONSTANT", 0, Str("properties")), Ins("CONSTANT", 0, Num(5)),
             Ins("NEW_OBJECT", 1, Null), Ins("DEFINE_GLOBAL", 0, Str("o")) >>
          \o LogProp("o", "x") \o LogProp("o", "properties") \o EmitReturn),
      \* class P { greet(){ return "hi"; } } console.log(new P().greet());
      \* (the default constructor is emitted as a FunctionObject constant)
      mainClass |-> Fn(0, FALSE,
          << Ins("CONSTANT", 0, Val("functionObject", 0, "P")),
             Ins("DEFINE_GLOBAL", 0, Str("P")) >>
          \o ClassRest("P") \o EmitReturn),
      \* class Q { constructor(){} greet(){ return "hi"; } } console.log(new Q().greet());
      mainClassCtor |-> Fn(0, FALSE, FunDecl("Q") \o ClassRest("Q") \o EmitReturn),
      Q |-> Fn(0, FALSE, << Ins("GET_LOCAL", 0, Null), Ins("RETURN", 0, Null) >>),
      greet |-> Fn(0, FALSE, << Ins("CONSTANT", 0, Str("hi")), Ins("RETURN", 0, Null) >>),
      \* let {x, value} = {x: 1, value: 2}; console.log(value);
      mainDestructure |-> Fn(0, FALSE,
          Destructure("DEFINE_GLOBAL", 0)
          \o << Ins("GET_NATIVE", 0, Str("console")), Ins("GET_GLOBAL", 0, Str("value")),
                Ins("CALL_METHOD", 1, Str("log")), Ins("POP", 0, Null) >>
          \o EmitReturn),
      \* function d(){ let {x, value} = {x: 1, value: 2}; console.log(value); } d();
      mainDestructureFn |-> Fn(0, FALSE, FunDecl("d") \o CallStmt("d") \o EmitReturn),
      d |-> Fn(0, FALSE,
          Destructure("SET_LOCAL", 1)
          \o << Ins("GET_NATIVE", 0, Str("console")), Ins("GET_LOCAL", 2, Null),
                Ins("CALL_METHOD", 1, Str("log")), Ins("POP", 0, Null) >>
          \o EmitReturn),
      \* async function one(){ return 1; }
      \* async function w(){ let v = await one(); console.log(v); }  w(); w();
      mainAwaitTwo |-> Fn(0, FALSE,
          FunDecl("one") \o FunDecl("w") \o CallStmt("w") \o CallStmt("w") \o EmitReturn),
      one |-> Fn(0, TRUE, << Ins("CONSTANT", 0, Num(1)), Ins("RETURN", 0, Null) >>),
      w |-> Fn(0, TRUE,
          << Ins("GET_GLOBAL", 0, Str("one")), Ins("CALL", 0, Null), Ins("AWAIT", 0, Null),
             Ins("SET_LOCAL", 1, Null),
             Ins("GET_NATIVE", 0, Str("console")), Ins("GET_LOCAL", 1, Null),
             Ins("CALL_METHOD", 1, Str("log")), Ins("POP", 0, Null) >>
          \o EmitReturn),
      \* async function m(x){ return 1; } let o = { m: m }; o.m(5);
      mainAsyncMethod |-> Fn(0, FALSE,
          FunDecl("m")
          \o << Ins("CONSTANT", 0, Str("m")), Ins("GET_GLOBAL", 0, Str("m")),
                Ins("NEW_OBJECT", 1, Null), Ins("DEFINE_GLOBAL", 0, Str("o")),
                Ins("GET_GLOBAL", 0, Str("o")), Ins("CONSTANT", 0, Num(5)),
                Ins("CALL_METHOD", 1, Str("m")), Ins("POP", 0, Null) >>
          \o EmitReturn),
      m |-> Fn(1, TRUE, << Ins("CONSTANT", 0, Num(1)), Ins("RETURN", 0, Null) >>),
      \* async function one(){ return 1; } function cb(v){ return 2; }
      \* function cb2(v){ console.log(v); }  one().then(cb).then(cb2);
      mainThen |-> Fn(0, FALSE,
          FunDecl("one") \o FunDecl("cb") \o FunDecl("cb2")
          \o << Ins("GET_GLOBAL", 0, Str("one")), Ins("CALL", 0, Null),
                Ins("GET_GLOBAL", 0, Str("cb")), Ins("CALL_METHOD", 1, Str("then")),
                Ins("GET_GLOBAL", 0, Str("cb2")), Ins("CALL_METHOD", 1, Str("then")),
                Ins("POP", 0, Null) >>
          \o EmitReturn),
      \* the same with  async function acb(v){ return 2; }  in the place of cb
      mainThenAsync |-> Fn(0, FALSE,
          FunDecl("one") \o FunDecl("acb") \o FunDecl("cb2")
          \o << Ins("GET_GLOBAL", 0, Str("one")), Ins("CALL", 0, Null),
                Ins("GET_GLOBAL", 0, Str("acb")), Ins("CALL_METHOD", 1, Str("then")),
                Ins("GET_GLOBAL", 0, Str("cb2")), Ins("CALL_METHOD", 1, Str("then")),
                Ins("POP", 0, Null) >>
          \o EmitReturn),
      \* function pair(){ let a = 1; let b = 2; function second(){ return b; }
      \*                  function first(){ return a; } return first(); }
      \* console.log(pair());
      mainPair |-> Fn(0, FALSE, FunDecl("pair") \o LogCall("pair") \o EmitReturn),
      pair |-> Fn(0, FALSE,
          << Ins("CONSTANT", 0, Num(1)), Ins("SET_LOCAL", 1, Null),
             Ins("CONSTANT", 0, Num(2)), Ins("SET_LOCAL", 2, Null),
             Ins("CLOSURE", 0, Str("second")), Ins("SET_LOCAL", 3, Null),
             Ins("CLOSURE", 0, Str("first")), Ins("SET_LOCAL", 4, Null),
             Ins("GET_LOCAL", 4, Null), Ins("CALL", 0, Null), Ins("RETURN", 0, Null) >>),
      second |-> FunctionObject(0,
          << Ins("GET_UPVALUE", 0, Null), Ins("RETURN", 0, Null) >>,
          << [isLocal |-> TRUE, index |-> 2] >>, FALSE, FALSE),
      first |-> FunctionObject(0,
          << Ins("GET_UPVALUE", 0, Null), Ins("RETURN", 0, Null) >>,
          << [isLocal |-> TRUE, index |-> 1] >>, FALSE, FALSE),
      \* function* gpair(){ let a = 1; let b = 2; function second(){ return b; }
      \*                    function first(){ return a; } first(); yield 1; }
      \* let it = gpair(); console.log(it.next().value); console.log(it.next().value);
      mainGenPair |-> Fn(0, FALSE,
          FunDecl("gpair") \o LetCall("it", "gpair") \o LogNext("it") \o LogNext("it")
          \o EmitReturn),
      gpair |-> FunctionObject(0,
          << Ins("CONSTANT", 0, Num(1)), Ins("SET_LOCAL", 1, Null),
             Ins("CONSTANT", 0, Num(2)), Ins("SET_LOCAL", 2, Null),
             Ins("CLOSURE", 0, Str("second")), Ins("SET_LOCAL", 3, Null),
             Ins("CLOSURE", 0, Str("first")), Ins("SET_LOCAL", 4, Null),
             Ins("GET_LOCAL", 4, Null), Ins("CALL", 0, Null), Ins("POP", 0, Null) >>
          \o YieldStmt(Num(1)) \o EmitReturn,
          <<>>, TRUE, FALSE),
      \* function blk(){ let r = null; { let y = 5; r = function gety(){ return y; }; }
      \*                 return r(); }
      \* console.log(blk());
      mainBlock |-> Fn(0, FALSE, FunDecl("blk") \o LogCall("blk") \o EmitReturn),
      blk |-> Fn(0, FALSE,
          << Ins("PUSH_NULL", 0, Null), Ins("SET_LOCAL", 1, Null),
             Ins("CONSTANT", 0, Num(5)), Ins("SET_LOCAL", 2, Null),
             Ins("CLOSURE", 0, Str("gety")), Ins("SET_LOCAL", 1, Null),
             Ins("POP", 0, Null), Ins("CLOSE_UPVALUE", 0, Null),
             Ins("GET_LOCAL", 1, Null), Ins("CALL", 0, Null), Ins("RETURN", 0, Null) >>),
      gety |-> FunctionObject(0,
          << Ins("GET_UPVALUE", 0, Null), Ins("RETURN", 0, Null) >>,
          << [isLocal |-> TRUE, index |-> 2] >>, FALSE, FALSE),
      \* function hold(){ let a = 1; function first(){ return a; } throw "e"; }
      \* try { hold(); } catch (e) { console.log(e); }
      mainUnwind |-> Fn(0, FALSE,
          FunDecl("hold")
          \o << Ins("SETUP_TRY", 5, Null) >> \o CallStmt("hold")
          \o << Ins("POP_CATCH", 0, Null), Ins("JUMP", 5, Null),
                Ins("SET_LOCAL", 1, Null),
                Ins("GET_NATIVE", 0, Str("console")), Ins("GET_LOCAL", 1, Null),
                Ins("CALL_METHOD", 1, Str("log")), Ins("POP", 0, Null) >>
          \o EmitReturn),
      hold |-> Fn(0, FALSE,
          << Ins("CONSTANT", 0, Num(1)), Ins("SET_LOCAL", 1, Null),
             Ins("CLOSURE", 0, Str("first")), Ins("SET_LOCAL", 2, Null),
             Ins("CONSTANT", 0, Str("e")), Ins("THROW", 0, Null) >>),
      \* function* count(){...} function* outerGen(){ let g = count(); g.next(); yield 5; }
      \* let og = outerGen(); console.log(og.next().value);
      mainGenNest |-> Fn(0, FALSE,
          FunDecl("count") \o FunDecl("outerGen") \o LetCall("og", "outerGen")
          \o LogNext("og") \o EmitReturn),
      outerGen |-> FunctionObject(0,
          << Ins("GET_GLOBAL", 0, Str("count")), Ins("CALL", 0, Null),
             Ins("SET_LOCAL", 1, Null), Ins("GET_LOCAL", 1, Null),
             Ins("CALL_METHOD", 0, Str("next")), Ins("POP", 0, Null) >>
          \o YieldStmt(Num(5)) \o EmitReturn,
          <<>>, TRUE, FALSE),
      \* function* gen2(a){ let x = 7; console.log(a); console.log(x); yield 1; }
      \* let it2 = gen2(4); it2.next();
      mainGenArgs |-> Fn(0, FALSE,
          FunDecl("gen2")
          \o << Ins("GET_GLOBAL", 0, Str("gen2")), Ins("CONSTANT", 0, Num(4)),
                Ins("CALL", 1, Null), Ins("DEFINE_GLOBAL", 0, Str("it2")) >>
          \o MethodStmt("it2", "next") \o EmitReturn),
      gen2 |-> FunctionObject(1,
          << Ins("CONSTANT", 0, Num(7)), Ins("SET_LOCAL", 2, Null),
             Ins("GET_NATIVE", 0, Str("console")), Ins("GET_LOCAL", 1, Null),
             Ins("CALL_METHOD", 1, Str("log")), Ins("POP", 0, Null),
             Ins("GET_NATIVE", 0, Str("console")), Ins("GET_LOCAL", 2, Null),
             Ins("CALL_METHOD", 1, Str("log")), Ins("POP", 0, Null) >>
          \o YieldStmt(Num(1)) \o EmitReturn,
          <<>>, TRUE, FALSE),
      \* async function acb(v){ return 2; }
      \* try { [1].forEach(acb); } catch (e) { console.log(e); }
      mainEachAsync |-> Fn(0, FALSE,
          FunDecl("acb")
          \o << Ins("SETUP_TRY", 7, Null), Ins("CONSTANT", 0, Num(1)),
                Ins("NEW_ARRAY", 1, Null), Ins("GET_GLOBAL", 0, Str("acb")),
                Ins("CALL_METHOD", 1, Str("forEach")), Ins("POP", 0, Null),
                Ins("POP_CATCH", 0, Null), Ins("JUMP", 5, Null),
                Ins("SET_LOCAL", 1, Null),
                Ins("GET_NATIVE", 0, Str("console")), Ins("GET_LOCAL", 1, Null),
                Ins("CALL_METHOD", 1, Str("log")), Ins("POP", 0, Null) >>
          \o EmitReturn),
      \* function* count(){ yield 1; ... } [1].forEach(count);
      mainEachGen |-> Fn(0, FALSE,
          FunDecl("count")
          \o << Ins("CONSTANT", 0, Num(1)), Ins("NEW_ARRAY", 1, Null),
                Ins("GET_GLOBAL", 0, Str("count")),
                Ins("CALL_METHOD", 1, Str("forEach")), Ins("POP", 0, Null) >>
          \o EmitReturn),
      \* function cb(v){ return 2; } [1, 3].forEach(cb); console.log("A");
      mainEach |-> Fn(0, FALSE,
          FunDecl("cb")
          \o << Ins("CONSTANT", 0, Num(1)), Ins("CONSTANT", 0, Num(3)),
                Ins("NEW_ARRAY", 2, Null), Ins("GET_GLOBAL", 0, Str("cb")),
                Ins("CALL_METHOD", 1, Str("forEach")), Ins("POP", 0, Null) >>
          \o LogStmt("A") \o EmitReturn),
      \* the place of the script Compiler.compile has compiled
      compiled |-> Fn(0, FALSE, <<>>),
      cb |-> Fn(1, FALSE, << Ins("CONSTANT", 0, Num(2)), Ins("RETURN", 0, Null) >>),
      acb |-> Fn(1, TRUE, << Ins("CONSTANT", 0, Num(2)), Ins("RETURN", 0, Null) >>),
      cb2 |-> Fn(1, FALSE,
          << Ins("GET_NATIVE", 0, Str("console")), Ins("GET_LOCAL", 1, Null),
             Ins("CALL_METHOD", 1, Str("log")), Ins("POP", 0, Null) >>
          \o EmitReturn)
    ]

Scripts == {"mainDelay", "mainTwo", "mainBoom", "mainNested", "mainEarly",
            "mainGuarded", "mainWaiter", "mainCounter", "mainCells", "mainGen",
            "mainGenReturn", "mainClear", "mainFive", "mainDeep", "mainRec", "mainNewArg",
            "mainThrowNum", "mainProps", "mainClass", "mainClassCtor",
            "mainDestructure", "mainDestructureFn", "mainAwaitTwo",
            "mainAsyncMethod", "mainThen", "mainThenAsync", "mainPair",
            "mainGenPair", "mainBlock", "mainUnwind",
            "mainGenNest", "mainGenArgs",
     "mainEachAsync", "mainEachGen", "mainEach"}

UserGlobals == {"delayedHello", "f", "g", "boom", "a", "b", "early", "guarded", "waiter",
                "outer", "f1", "f2", "mk", "s1", "s2", "count", "gen", "nop",
                "h", "five", "C", "r", "o", "P", "Q",
                "d", "x", "value", "one", "w", "m",
                "cb", "acb", "cb2", "pair", "gpair", "it", "blk", "hold", "outerGen", "og", "gen2", "it2",
                "y", "e"}
NativeGlobals == {"console", "Object", "Promise", "fetch", "setInterval",
                  "clearInterval", "setTimeout"}

-----------------------------------------------------------------------------
(* Records of the run-time objects *)

\* CallFrame; fid names the object.  History fields: task is the microtask that put
\* the frame (or the frame that called it) on the call stack, by the frame whose CALL
\* created the AsyncCallTask the frame descends from; awaited, depth and saved are the
\* promise the frame was last suspended on by AWAIT, the length of the value stack
\* and its elements from stackBase upward at that suspension; gen is the
\* GeneratorObject whose body the frame runs (0 for every other frame).
Frame(fid, closure, ip, stackBase, asyncPromise, task, by) ==
    [fid |-> fid, func |-> closure.s, closure |-> closure.n, ip |-> ip,
     stackBase |-> stackBase, asyncPromise |-> asyncPromise, task |-> task, by |-> by,
     awaited |-> 0, depth |-> 0, saved |-> <<>>, gen |-> 0]

NoFrame == Frame(0, ClosureRef(0, ""), 0, 0, 0, 0, 0)

\* ExceptionHandler; fid records the frame that executed SETUP_TRY.
ExceptionHandler(targetIp, stackSize, frameIndex, fid) ==
    [targetIp |-> targetIp, stackSize |-> stackSize, frameIndex |-> frameIndex, fid |-> fid]

\* A function handed to then(): nothing, a VM closure, or one of the native arrows
\* the VM itself passes (adoption in _resolveInternal, the two AWAIT handlers) or
\* a host function (it prints its argument and returns it).
Hnd(k, p, frame, fn, id) == [k |-> k, p |-> p, frame |-> frame, fn |-> fn, id |-> id]
NoHnd == Hnd("none", 0, NoFrame, "", 0)

\* scheduleFulfillment / scheduleRejection of one then() call: handler and newPromise
Callback(on, np) == [on |-> on, np |-> np]
NoCallback == Callback(NoHnd, 0)

\* A microtask: an AsyncCallTask ("call") or one of the arrow functions the source
\* schedules.  History fields: tid is the position in the order of scheduling,
\* receiver the receiver of the method call when OP_CALL_METHOD made the task.
Task(kind, callee, promise, args, by, p, v, cb, frame) ==
    [kind |-> kind, tid |-> 0, callee |-> callee, promise |-> promise, args |-> args,
     by |-> by, p |-> p, v |-> v, cb |-> cb, frame |-> frame, receiver |-> Absent]

AsyncCallTask(callee, asyncPromise, args, by) ==
    Task("call", callee, asyncPromise, args, by, 0, Undef, NoCallback, NoFrame)

\* A PromiseV1 (see NewPromise).  History fields: follows is the promise it was last resolved with
\* while pending, calls counts the resolve/reject/_resolveInternal/_rejectInternal
\* calls the host made on it, ignored the internal calls that found it settled.

\* the heap when interpret starts: the FunctionObjects of the compiled program (the
\* constants OP_CLOSURE makes closures of), by name, and nothing allocated yet;
\* minusOne is the property "-1" of the stack array (what stack[-1] reads and writes)
NoHeap ==
    [functions |-> Funcs, closures |-> <<>>, upvalues |-> <<>>, objects |-> <<>>,
     minusOne |-> Undef]

-----------------------------------------------------------------------------
(* The whole state as one record, so that the methods are functions on it *)

Cur ==
    [stack |-> stack, callFrames |-> callFrames, exceptionHandlers |-> exceptionHandlers,
     microtaskQueue |-> microtaskQueue, globals |-> globals,
     pendingHostOps |-> pendingHostOps, hasError |-> hasError, promises |-> promises,
     timers |-> timers, openUpvalues |-> openUpvalues,
     activeCoroutine |-> activeCoroutine, heap |-> heap, log |-> log, hist |-> hist]

\* the VM becomes S; the compiler is not part of the VM
Becomes(S) ==
    /\ stack' = S.stack
    /\ callFrames' = S.callFrames
    /\ exceptionHandlers' = S.exceptionHandlers
    /\ microtaskQueue' = S.microtaskQueue
    /\ globals' = S.globals
    /\ pendingHostOps' = S.pendingHostOps
    /\ hasError' = S.hasError
    /\ promises' = S.promises
    /\ timers' = S.timers
    /\ openUpvalues' = S.openUpvalues
    /\ activeCoroutine' = S.activeCoroutine
    /\ heap' = S.heap
    /\ log' = S.log
    /\ hist' = S.hist
    /\ UNCHANGED compiler

\* `array.length = n`: truncates, or extends with holes (read as undefined)
SetLength(seq, n) ==
    IF n <= Len(seq) THEN SubSeq(seq, 1, n)
    ELSE seq \o [i \in 1..(n - Len(seq)) |-> Undef]

Last(seq) == seq[Len(seq)]
Front(seq) == SubSeq(seq, 1, Len(seq) - 1)

Push(S, v) == [S EXCEPT !.stack = Append(@, v)]

-----------------------------------------------------------------------------
(* PromiseV1 *)

scheduleMicrotask(S, task) ==
    [S EXCEPT !.microtaskQueue = Append(@, [task EXCEPT !.tid = S.hist.nextTid]),
              !.hist.nextTid = @ + 1]

\* new PromiseV1(null, vm); the new promise's id is Len(S.promises) + 1
NewPromise(S) ==
    [S EXCEPT !.promises =
        Append(@, [state |-> "pending", value |-> Undef, reason |-> Undef,
                   onFulfilledCallbacks |-> <<>>, onRejectedCallbacks |-> <<>>,
                   follows |-> 0, calls |-> 0, ignored |-> 0])]

PromiseResolve(S, p, value) ==
    scheduleMicrotask(S, Task("res", Null, 0, <<>>, 0, p, value, NoCallback, NoFrame))
PromiseReject(S, p, reason) ==
    scheduleMicrotask(S, Task("rej", Null, 0, <<>>, 0, p, reason, NoCallback, NoFrame))

\* then() that only registers the callbacks, whatever the state
ThenPendingOnly(S, p, onFulfilled, onRejected) ==
    LET S1 == NewPromise(S)
        np == Len(S1.promises)
    IN [S1 EXCEPT
          !.promises[p].onFulfilledCallbacks =
              IF onFulfilled.k # "none" THEN Append(@, Callback(onFulfilled, np)) ELSE @,
          !.promises[p].onRejectedCallbacks =
              IF onRejected.k # "none" THEN Append(@, Callback(onRejected, np)) ELSE @]

Then(S, p, onFulfilled, onRejected) ==
    LET S1 == NewPromise(S)
        np == Len(S1.promises)
        cbF == Callback(onFulfilled, np)
        cbR == Callback(onRejected, np)
    IN CASE S.promises[p].state = "fulfilled" ->
              scheduleMicrotask(S1, Task("thenF", Null, 0, <<>>, 0, p, Undef, cbF, NoFrame))
         [] S.promises[p].state = "rejected" ->
              scheduleMicrotask(S1, Task("thenR", Null, 0, <<>>, 0, p, Undef, cbR, NoFrame))
         [] OTHER ->
              [S1 EXCEPT
                 !.promises[p].onFulfilledCallbacks =
                     IF onFulfilled.k # "none" THEN Append(@, cbF) ELSE @,
                 !.promises[p].onRejectedCallbacks =
                     IF onRejected.k # "none" THEN Append(@, cbR) ELSE @]

RECURSIVE ResolveInternal(_, _, _)
RECURSIVE RejectInternal(_, _, _)
RECURSIVE RunCallbacks(_, _, _, _)
RECURSIVE ScheduleSettle(_, _, _, _)

\* _rejectInternal whose guard lets a fulfilled promise through
RejectInternalOverFulfilled(S, p, reason) ==
    IF S.promises[p].state = "rejected" THEN [S EXCEPT !.promises[p].ignored = @ + 1]
    ELSE LET S1 == [S EXCEPT !.promises[p].state = "rejected",
                             !.promises[p].reason = reason]
             S2 == RunCallbacks(S1, S1.promises[p].onRejectedCallbacks, reason, FALSE)
         IN [S2 EXCEPT !.promises[p].onRejectedCallbacks = <<>>]

ResolveInternal(S, p, value) ==
    IF S.promises[p].state # "pending" THEN [S EXCEPT !.promises[p].ignored = @ + 1]
    ELSE IF value.t = "promise"
         THEN Then([S EXCEPT !.promises[p].follows = value.n],
                   value.n, Hnd("adoptRes", p, NoFrame, "", 0),
                   Hnd("adoptRej", p, NoFrame, "", 0))
         ELSE LET S1 == [S EXCEPT !.promises[p].state = "fulfilled",
                                  !.promises[p].value = value]
                  S2 == RunCallbacks(S1, S1.promises[p].onFulfilledCallbacks, value, TRUE)
              IN [S2 EXCEPT !.promises[p].onFulfilledCallbacks = <<>>]

RejectInternal(S, p, reason) ==
    IF S.promises[p].state # "pending" THEN [S EXCEPT !.promises[p].ignored = @ + 1]
    ELSE LET S1 == [S EXCEPT !.promises[p].state = "rejected",
                             !.promises[p].reason = reason]
             S2 == RunCallbacks(S1, S1.promises[p].onRejectedCallbacks, reason, FALSE)
         IN [S2 EXCEPT !.promises[p].onRejectedCallbacks = <<>>]

\* callbacks.forEach(cb => cb(v))
RunCallbacks(S, cbs, v, fulfilled) ==
    IF cbs = <<>> THEN S
    ELSE RunCallbacks(ScheduleSettle(S, Head(cbs), v, fulfilled), Tail(cbs), v, fulfilled)

\* scheduleFulfillment(v) (fulfilled) and scheduleRejection(v) of one then() call
ScheduleSettle(S, cb, v, fulfilled) ==
    LET h == cb.on IN
    CASE h.k = "none" ->
           IF fulfilled THEN PromiseResolve(S, cb.np, v) ELSE PromiseReject(S, cb.np, v)
      [] h.k = "closure" ->
           scheduleMicrotask(S, AsyncCallTask(ClosureRef(h.id, h.fn), cb.np, <<v>>, 0))
      [] h.k = "adoptRes" -> PromiseResolve(ResolveInternal(S, h.p, v), cb.np, Undef)
      [] h.k = "adoptRej" -> PromiseResolve(RejectInternal(S, h.p, v), cb.np, Undef)
      [] h.k = "awaitRes" ->
           PromiseResolve(scheduleMicrotask(S, Task("resume", Null, 0, <<>>, 0, 0, v,
                                                    NoCallback, h.frame)), cb.np, Undef)
      [] h.k = "awaitRej" ->
           PromiseResolve(scheduleMicrotask(S, Task("resumeErr", Null, 0, <<>>, 0, 0, v,
                                                    NoCallback, h.frame)), cb.np, Undef)
      [] OTHER ->
           PromiseResolve([S EXCEPT !.log = Append(@, [ch |-> "cb", id |-> h.id, v |-> v])],
                          cb.np, v)

-----------------------------------------------------------------------------
(* VM: stack access and runtimeError *)

Top(S) == Len(S.callFrames)

AsyncFrames(S) ==
    {i \in 1..Len(S.callFrames) :
        S.heap.functions[S.callFrames[i].func].isAsync /\ S.callFrames[i].asyncPromise # 0}

\* history: the last call of runtimeError, with the stack sizes it found
RecordErr(Before, After, message, branch, promise, handler) ==
    [After EXCEPT !.hist.errCount = @ + 1,
                  !.hist.lastErr = [msg |-> message, branch |-> branch, promise |-> promise,
                                    handler |-> handler,
                                    frames |-> Len(Before.callFrames),
                                    handlers |-> Len(Before.exceptionHandlers)]]

\* the handler branch of runtimeError
Unwind(S, message, handler) ==
    LET keep == IF Len(S.callFrames) - 1 > handler.frameIndex
                THEN handler.frameIndex + 1 ELSE Len(S.callFrames)
    IN IF keep = 0
       THEN \* this.currentFrame is undefined: the assignment to its ip throws
            RecordErr(S, [S EXCEPT !.exceptionHandlers = Front(@),
                                   !.stack = Append(SetLength(@, handler.stackSize), message),
                                   !.hist.crashed = TRUE],
                      message, "crash", 0, handler)
       ELSE RecordErr(S, [S EXCEPT !.exceptionHandlers = Front(@),
                                   !.callFrames = [SubSeq(@, 1, keep) EXCEPT
                                                      ![keep].ip = handler.targetIp],
                                   !.stack = Append(SetLength(@, handler.stackSize), message)],
                      message, "catch", 0, handler)

\* the first branch of runtimeError: the innermost async frame with a promise
RejectAsyncFrame(S, message, promise) ==
    RecordErr(S, [PromiseReject(S, promise, message) EXCEPT !.hasError = TRUE],
              message, "reject", promise, ExceptionHandler(0, 0, 0, 0))

RuntimeError(S, message, rejectPromise) ==
    IF rejectPromise /\ AsyncFrames(S) # {}
    THEN RejectAsyncFrame(S, message, S.callFrames[CHOOSE i \in AsyncFrames(S) :
                                  \A j \in AsyncFrames(S) : j <= i].asyncPromise)
    ELSE IF Len(S.exceptionHandlers) > 0
    THEN Unwind(S, message, Last(S.exceptionHandlers))
    ELSE RecordErr(S, [S EXCEPT !.hasError = TRUE,
                                !.log = Append(@, [ch |-> "error", id |-> 0, v |-> message])],
                   message, "fatal", 0, ExceptionHandler(0, 0, 0, 0))

\* pop(): the state after it and the value it returns
PopS(S) ==
    IF Len(S.stack) = 0 THEN RuntimeError(S, Str("Stack underflow!"), TRUE)
    ELSE [S EXCEPT !.stack = Front(@)]
PopV(S) == IF Len(S.stack) = 0 THEN Null ELSE Last(S.stack)

\* peek(distance)
PeekS(S, distance) ==
    IF Len(S.stack) <= distance THEN RuntimeError(S, Str("Stack underflow for peek!"), TRUE)
    ELSE S
PeekV(S, distance) ==
    IF Len(S.stack) <= distance THEN Null ELSE S.stack[Len(S.stack) - distance]

\* stack[index] with a 0-based index; a hole or an index past the end reads undefined,
\* the index -1 reads the property "-1"
StackAt(S, index) ==
    IF index = -1 THEN S.heap.minusOne
    ELSE IF index + 1 \in 1..Len(S.stack) THEN S.stack[index + 1] ELSE Undef

\* stack[index] = v with a 0-based index; an index past the end extends the array,
\* the index -1 sets the property "-1" and leaves the elements alone
StackPut(S, index, v) ==
    IF index = -1 THEN [S EXCEPT !.heap.minusOne = v]
    ELSE [S EXCEPT !.stack = [SetLength(@, IF index + 1 > Len(@) THEN index + 1 ELSE Len(@))
                                 EXCEPT ![index + 1] = v]]

Res(S, r) == [s |-> S, r |-> r]

-----------------------------------------------------------------------------
(* Closures and upvalues *)

\* new Closure(func, upvalues); the new closure's id is Len(S.heap.closures) + 1
NewClosure(S, f, upvalues) ==
    [S EXCEPT !.heap.closures =
                 Append(@, [func |-> f, upvalues |-> upvalues, prototype |-> Null])]

\* new Upvalue(location).  History fields: fid and slot name the activation and the
\* local the upvalue was created for, held is the value the local had when the
\* upvalue was closed or the last value written through it since.
Upvalue(location, next, fid, slot) ==
    [location |-> location, closed |-> Null, next |-> next, fid |-> fid, slot |-> slot,
     held |-> Absent]

\* the search loop of captureUpvalue: the last upvalue above stackLocation and the
\* first one at or below it
RECURSIVE FindUpvalue(_, _, _, _)
FindUpvalue(S, prevUpvalue, upvalue, stackLocation) ==
    IF upvalue # 0 /\ S.heap.upvalues[upvalue].location > stackLocation
    THEN FindUpvalue(S, upvalue, S.heap.upvalues[upvalue].next, stackLocation)
    ELSE [prevUpvalue |-> prevUpvalue, upvalue |-> upvalue]

\* captureUpvalue(stackLocation) once the search has ended at `found`
CaptureAt(S, found, stackLocation, fid, slot) ==
    IF found.upvalue # 0 /\ S.heap.upvalues[found.upvalue].location = stackLocation
    THEN Res(S, found.upvalue)
    ELSE Res(IF found.prevUpvalue = 0
             THEN [S EXCEPT !.heap.upvalues =
                               Append(@, Upvalue(stackLocation, found.upvalue, fid, slot)),
                            !.openUpvalues = Len(S.heap.upvalues) + 1]
             ELSE [S EXCEPT !.heap.upvalues =
                               Append([@ EXCEPT ![found.prevUpvalue].next =
                                                    Len(S.heap.upvalues) + 1],
                                      Upvalue(stackLocation, found.upvalue, fid, slot))],
             Len(S.heap.upvalues) + 1)

\* captureUpvalue that links every new upvalue in at the head, without the search
captureUpvalueAtHead(S, stackLocation, fid, slot) ==
    CaptureAt(S, [prevUpvalue |-> 0, upvalue |-> S.openUpvalues], stackLocation, fid, slot)

captureUpvalue(S, stackLocation, fid, slot) ==
    CaptureAt(S, FindUpvalue(S, 0, S.openUpvalues, stackLocation), stackLocation, fid, slot)

RECURSIVE closeUpvalues(_, _)
closeUpvalues(S, lastStackLocation) ==
    IF S.openUpvalues # 0 /\ S.heap.upvalues[S.openUpvalues].location >= lastStackLocation
    THEN closeUpvalues(
           [S EXCEPT !.heap.upvalues[S.openUpvalues].closed =
                         StackAt(S, S.heap.upvalues[S.openUpvalues].location),
                     !.heap.upvalues[S.openUpvalues].held =
                         StackAt(S, S.heap.upvalues[S.openUpvalues].location),
                     !.heap.upvalues[S.openUpvalues].location = -1,
                     !.openUpvalues = S.heap.upvalues[S.openUpvalues].next],
           lastStackLocation)
    ELSE S

\* `upvalue.closed !== null ? upvalue.closed : vm.stack[upvalue.location]`
ReadUpvalue(S, upvalue) ==
    IF S.heap.upvalues[upvalue].closed # Null THEN S.heap.upvalues[upvalue].closed
    ELSE StackAt(S, S.heap.upvalues[upvalue].location)

\* `if (upvalue.closed !== null) upvalue.closed = v; else vm.stack[upvalue.location] = v`
WriteUpvalue(S, upvalue, v) ==
    IF S.heap.upvalues[upvalue].closed # Null
    THEN [S EXCEPT !.heap.upvalues[upvalue].closed = v,
                   !.heap.upvalues[upvalue].held = v]
    ELSE [StackPut(S, S.heap.upvalues[upvalue].location, v) EXCEPT
             !.heap.upvalues[upvalue].held =
                 IF S.heap.upvalues[upvalue].location = -1 THEN v ELSE @]

-----------------------------------------------------------------------------
(* Objects: VM objects {properties, prototype}, plain host objects and         *)
(* GeneratorObjects                                                            *)

\* what every host object inherits from Object.prototype, of the names used
ObjectPrototypeNames == {"constructor"}

\* a property table without properties, over the property names the scripts use
NoProperties ==
    [name \in {"value", "done", "x", "properties", "prototype", "constructor", "greet",
                "m"}
        |-> Absent]

\* new Coroutine(closure); stack and minusOne are the elements and the property "-1"
\* of its stack array, caller is the scheduler state resume() saves
Coroutine ==
    [stack |-> <<>>, minusOne |-> Undef, callFrames |-> <<>>, openUpvalues |-> 0,
     state |-> "suspended",
     caller |-> [stack |-> <<>>, minusOne |-> Undef, callFrames |-> <<>>,
                 openUpvalues |-> 0]]

\* one heap object.  History fields of a GeneratorObject: calls counts its next()
\* calls, returned tells that return() was called, args are the arguments the
\* generator function was called with.  elements are the elements of a host array.
Object(kind, properties, prototype, closure) ==
    [kind |-> kind, properties |-> properties, prototype |-> prototype, closure |-> closure,
     done |-> FALSE, value |-> Null, coroutine |-> Coroutine, calls |-> 0,
     returned |-> FALSE, args |-> <<>>, elements |-> <<>>]

\* new GeneratorObject(closure, vm)
GeneratorObject(closure) == Object("generator", NoProperties, Null, closure)

\* the new object's id is Len(S.heap.objects) + 1
NewObject(S, obj) == [S EXCEPT !.heap.objects = Append(@, obj)]

\* `v ?? null`
NullishToNull(v) == IF v.t \in {"null", "undefined"} THEN Null ELSE v

\* allocates { value: value, done: done } and returns it
IterResult(S, value, done) ==
    Res(NewObject(S, Object("js", [NoProperties EXCEPT !["value"] = value,
                                                       !["done"] = Bool(done)],
                            Null, Null)),
        ObjectVal(Len(S.heap.objects) + 1))

-----------------------------------------------------------------------------
(* Native functions reachable from the scripts *)

\* setTimeoutWrapper(callback, delay): the state after the call and its result
SetTimeoutS(S, args) ==
    LET callback == IF Len(args) >= 1 THEN args[1] ELSE Undef
    IN IF callback.t \in {"closure", "native"}
       THEN [S EXCEPT !.pendingHostOps = @ + 1,
                      !.timers = Append(@, [id |-> S.hist.nextTimer, cb |-> callback]),
                      !.hist.nextTimer = @ + 1]
       ELSE RuntimeError(S, Str("setTimeout expects a function as the first argument."), TRUE)

\* callee.object(...args) for a NativeObject wrapping a function
NativeCallS(S, callee, args) ==
    CASE callee.s = "resolve" ->
           PromiseResolve(S, callee.n, IF Len(args) >= 1 THEN args[1] ELSE Undef)
      [] callee.s = "reject" ->
           PromiseReject(S, callee.n, IF Len(args) >= 1 THEN args[1] ELSE Undef)
      [] callee.s = "setTimeout" -> SetTimeoutS(S, args)
NativeCallV(S, callee, args) ==
    CASE callee.s \in {"resolve", "reject"} -> Undef
      [] callee.s = "setTimeout" ->
            LET callback == IF Len(args) >= 1 THEN args[1] ELSE Undef
            IN IF callback.t \in {"closure", "native"}
               THEN Val("timer", S.hist.nextTimer, "") ELSE Undef

\* new PromiseV1(executor, vm) with a VM closure as executor
NewPromiseWithExecutor(S, executor, by) ==
    LET S1 == NewPromise(S)
        np == Len(S1.promises)
    IN scheduleMicrotask(S1, AsyncCallTask(executor, 0,
                             <<NativeVal("resolve", np), NativeVal("reject", np)>>, by))

-----------------------------------------------------------------------------
(* Instruction handlers.  S is the state after the opcode and its operands    *)
(* were read (the current frame's ip already advanced); the current frame is  *)
(* the top of callFrames.                                                     *)

CurFrame(S) == S.callFrames[Top(S)]

\* the upvalue operands of OP_CLOSURE, read one pair at a time
RECURSIVE CaptureAll(_, _, _)
CaptureNext(res, descs, upvalues) == CaptureAll(res.s, descs, Append(upvalues, res.r))
CaptureAll(S, descs, upvalues) ==
    IF descs = <<>> THEN Res(S, upvalues)
    ELSE IF Head(descs).isLocal
    THEN CaptureNext(captureUpvalue(S, CurFrame(S).stackBase + Head(descs).index,
                                    CurFrame(S).fid, Head(descs).index),
                     Tail(descs), upvalues)
    ELSE CaptureAll(S, Tail(descs),
                    Append(upvalues,
                           S.heap.closures[CurFrame(S).closure].upvalues[Head(descs).index + 1]))

PushClosure(res, f) ==
    Res(Push(NewClosure(res.s, f, res.r), ClosureRef(Len(res.s.heap.closures) + 1, f)), "OK")

OP_CLOSURE(S, ins) ==
    PushClosure(CaptureAll(S, S.heap.functions[ins.k.s].upvalues, <<>>), ins.k.s)

\* currentFrame.closure.upvalues[slot]
UpvalueOf(S, slot) == S.heap.closures[CurFrame(S).closure].upvalues[slot + 1]

OP_INCREMENT_UPVALUE(S, ins) ==
    IF ReadUpvalue(S, UpvalueOf(S, ins.a)).t # "number"
    THEN Res(RuntimeError(S, Str("Operand for increment must be a number."), TRUE),
             "RUNTIME_ERROR")
    ELSE Res(Push(WriteUpvalue(S, UpvalueOf(S, ins.a),
                               Num(ReadUpvalue(S, UpvalueOf(S, ins.a)).n + 1)),
                  Num(ReadUpvalue(S, UpvalueOf(S, ins.a)).n + 1)), "OK")

OP_DEFINE_GLOBAL(S, ins) ==
    LET S1 == PeekS(S, 0)
    IN Res([S1 EXCEPT !.globals[ins.k.s] = PeekV(S, 0)], "OK")

OP_GET_GLOBAL(S, ins) ==
    IF S.globals[ins.k.s] = Absent
    THEN Res(RuntimeError(S, Str("Undefined variable"), TRUE), "RUNTIME_ERROR")
    ELSE Res(Push(S, S.globals[ins.k.s]), "OK")

OP_GET_NATIVE(S, ins) ==
    IF S.globals[ins.k.s] = Absent
    THEN Res(RuntimeError(S, Str("Native object not found."), TRUE), "RUNTIME_ERROR")
    ELSE Res(Push(S, S.globals[ins.k.s]), "OK")

OP_SET_LOCAL(S, ins) ==
    LET S1 == PeekS(S, 0)
    IN Res(StackPut(S1, CurFrame(S).stackBase + ins.a, PeekV(S, 0)), "OK")

\* the condition is peeked and stays on the stack; isFalsy for the values the
\* scripts test
OP_JUMP_IF_FALSE(S, ins) ==
    LET isFalsy(value) ==
            \/ value.t \in {"null", "undefined"}
            \/ value.t = "boolean" /\ value.n = 0
            \/ value.t = "number" /\ value.n = 0
            \/ value.t = "string" /\ value.s = ""
    IN
    IF isFalsy(PeekV(S, 0))
    THEN Res([PeekS(S, 0) EXCEPT !.callFrames[Top(S)].ip = @ + ins.a], "OK")
    ELSE Res(PeekS(S, 0), "OK")

\* setupTry(catchIp)
\* History: hist.tries notes, for each SETUP_TRY executed, the instruction and the
\* stack depth it found
OP_SETUP_TRY(S, ins) ==
    Res([S EXCEPT !.exceptionHandlers =
                     Append(@, ExceptionHandler(CurFrame(S).ip + ins.a, Len(S.stack),
                                                Len(S.callFrames) - 1, CurFrame(S).fid)),
                  !.hist.tries = Append(@, [func |-> CurFrame(S).func,
                                            at |-> CurFrame(S).ip - 1,
                                            depth |-> Len(S.stack)])],
        "OK")

OP_THROW(S, ins) ==
    LET S1 == PopS(S)
        S2 == RuntimeError(S1, ToStringJS(PopV(S)), TRUE)
    IN Res(S2, IF S2.hasError THEN "RUNTIME_ERROR" ELSE "OK")

\* an async call that enters the callee at once, as a plain call does
CallAsyncImmediately(S, callee, argCount) ==
    [NewPromise(S) EXCEPT
        !.callFrames = Append(@, Frame(S.hist.nextFid, callee, 1,
                                       Len(S.stack) - argCount - 1, Len(S.promises) + 1,
                                       CurFrame(S).task, CurFrame(S).fid)),
        !.hist.nextFid = @ + 1]

\* the async branch of OP_CALL: a promise, a task, no frame
CallAsync(S, callee, argCount) ==
    LET n == Len(S.stack)
        args == SubSeq(S.stack, n - argCount + 1, n)
        promise == Len(S.promises) + 1
    IN Push(scheduleMicrotask(
              [PopS(NewPromise(S)) EXCEPT !.stack = SetLength(@, Len(@) - argCount)],
              AsyncCallTask(callee, promise, args, CurFrame(S).fid)),
            PromiseVal(promise))

\* the generator branch of OP_CALL: a GeneratorObject, no frame
CallGenerator(S, callee, argCount) ==
    Push(NewObject([PopS(S) EXCEPT !.stack = SetLength(@, Len(@) - argCount)],
                   [GeneratorObject(callee) EXCEPT
                       !.args = SubSeq(S.stack, Len(S.stack) - argCount + 1, Len(S.stack))]),
         ObjectVal(Len(S.heap.objects) + 1))

\* the plain branch of OP_CALL: a frame over the callee and its arguments
CallClosure(S, callee, argCount) ==
    [S EXCEPT !.callFrames = Append(@, Frame(S.hist.nextFid, callee, 1,
                                             Len(S.stack) - argCount - 1, 0,
                                             CurFrame(S).task, CurFrame(S).by)),
              !.hist.nextFid = @ + 1]

\* the NativeObject branch of OP_CALL
CallNative(S, callee, argCount) ==
    LET n == Len(S.stack)
        args == SubSeq(S.stack, n - argCount + 1, n)
    IN Push(NativeCallS(PopS([S EXCEPT !.stack = SetLength(@, n - argCount)]), callee, args),
            UndefToNull(NativeCallV(S, callee, args)))

CallValue(S, callee, argCount) ==
    CASE callee.t = "closure" ->
              IF S.heap.functions[callee.s].arity # argCount
              THEN Res(RuntimeError(S, Str("Expected a different number of arguments."), TRUE),
                       "RUNTIME_ERROR")
              ELSE IF Len(S.callFrames) = MAX_CALL_FRAMES
              THEN Res(RuntimeError(S, Str("Stack overflow."), TRUE), "RUNTIME_ERROR")
              ELSE IF S.heap.functions[callee.s].isGenerator
              THEN Res(CallGenerator(S, callee, argCount), "OK")
              ELSE IF S.heap.functions[callee.s].isAsync
              THEN Res(CallAsync(S, callee, argCount), "OK")
              ELSE Res(CallClosure(S, callee, argCount), "OK")
         [] callee.t = "native" -> Res(CallNative(S, callee, argCount), "OK")
         [] OTHER ->
              Res(RuntimeError(S, Str("Can only call functions and classes."), TRUE),
                  "RUNTIME_ERROR")

OP_CALL(S, ins) == CallValue(PeekS(S, ins.a), PeekV(S, ins.a), ins.a)

\* history: the value the script's own frame returned, and the promise and the
\* value of every frame that returned with a promise linked to it
NoteReturn(S, frame, result) ==
    [S EXCEPT !.hist.returned = IF frame.func = S.hist.script THEN result ELSE @,
              !.hist.rets = IF frame.asyncPromise # 0
                            THEN Append(@, [func |-> frame.func,
                                            promise |-> frame.asyncPromise, v |-> result])
                            ELSE @]

OP_RETURN(S, ins) ==
    LET result == PopV(S)
        S1 == PopS(S)
        frame == S1.callFrames[Len(S1.callFrames)]
        S2 == IF S1.heap.functions[frame.func].isAsync /\ frame.asyncPromise # 0
              THEN PromiseResolve(S1, frame.asyncPromise, result)
              ELSE S1
        S3 == closeUpvalues(NoteReturn(S2, frame, result), frame.stackBase)
    IN Res([S3 EXCEPT !.callFrames = Front(@),
                      !.stack = Append(SetLength(@, frame.stackBase), result)], "OK")

RECURSIVE InstructionHandlers(_, _)

\* run(): one iteration of its loop, on the frame on top of the call stack.
\* History: astray tells that an instruction ran on the call stack of a generator
\* (or on the VM's own) while activeCoroutine was not that generator (not null).
RunInstruction(S) ==
    LET frame == CurFrame(S)
        code == S.heap.functions[frame.func].code
        S1 == [S EXCEPT !.callFrames[Top(S)].ip = @ + 1,
                        !.hist.astray = @ \/ S.callFrames[1].gen # S.activeCoroutine]
    IN IF frame.ip \in 1..Len(code)
       THEN InstructionHandlers(S1, code[frame.ip])
       ELSE Res(RuntimeError(S1, Str("Unknown opcode: undefined"), TRUE), "OK")

\* run() called from resume(): it loops until the call stack is empty, a handler
\* yields or an error is flagged
RECURSIVE RunNested(_)
RunNestedAfter(res) ==
    IF res.r \in {"YIELD", "THROWN"} THEN res
    ELSE IF res.s.hasError THEN Res(res.s, "RUNTIME_ERROR")
    ELSE RunNested(res.s)
RunNested(S) ==
    IF S.hasError THEN Res(S, "RUNTIME_ERROR")
    ELSE IF Len(S.callFrames) = 0 THEN Res(S, "OK")
    ELSE RunNestedAfter(RunInstruction(S))

\* the loop of executeSyncClosure: instructions until the call stack is back at
\* initialCallFrameCount, an error is flagged, a handler yields or a handler throws
RECURSIVE RunSync(_, _)
RunSyncAfter(res, initialCallFrameCount) ==
    IF res.r = "THROWN" THEN res
    ELSE IF res.s.hasError THEN Res(res.s, "BREAK")
    ELSE IF res.r = "YIELD"
    THEN Res(RuntimeError(res.s,
                          Str("Cannot yield/await within a synchronous native callback."),
                          FALSE), "BREAK")
    ELSE RunSync(res.s, initialCallFrameCount)
RunSync(S, initialCallFrameCount) ==
    IF Len(S.callFrames) <= initialCallFrameCount THEN Res(S, "BREAK")
    ELSE IF CurFrame(S).ip \notin 1..Len(S.heap.functions[CurFrame(S).func].code)
    THEN Res(RuntimeError(S, Str("Unknown opcode in sync closure"), FALSE), "BREAK")
    ELSE RunSyncAfter(RunInstruction(S), initialCallFrameCount)

\* the finally block of executeSyncClosure and what the call gives the host: the
\* value popped, or Val("thrown", 0, "") when it throws
SyncResult(res, initialCallFrameCount, initialStackDepth) ==
    LET Restored(T) ==
            [T EXCEPT !.stack = SetLength(@, initialStackDepth),
                      !.callFrames = IF Len(@) > initialCallFrameCount
                                     THEN SubSeq(@, 1, initialCallFrameCount) ELSE @]
    IN IF res.r = "THROWN" \/ res.s.hasError THEN Res(Restored(res.s), Val("thrown", 0, ""))
       ELSE IF PopS(res.s).hasError THEN Res(Restored(PopS(res.s)), Val("thrown", 0, ""))
       ELSE Res(Restored(PopS(res.s)), PopV(res.s))

\* executeSyncClosure(closure, args); hist.syncs notes each call: its function, the
\* frame count and stack depth before and after, and whether it threw
executeSyncClosure(S, closure, args) ==
    LET res == IF S.heap.functions[closure.s].isAsync
               THEN Res(RuntimeError(S, Str("Async VM function cannot be used as a synchronous callback."),
                                     FALSE),
                        Val("thrown", 0, ""))
               ELSE SyncResult(RunSync([S EXCEPT !.stack = (@ \o <<closure>>) \o args,
                                                 !.callFrames = Append(@, Frame(S.hist.nextFid, closure, 1,
                                                                                Len(S.stack), 0,
                                                                                CurFrame(S).task,
                                                                                CurFrame(S).by)),
                                                 !.hist.nextFid = @ + 1],
                                       Len(S.callFrames)),
                               Len(S.callFrames), Len(S.stack))
    IN [res EXCEPT !.s.hist.syncs =
            Append(@, [func |-> closure.s, threw |-> res.r.t = "thrown",
                       frames |-> <<Len(S.callFrames), Len(res.s.callFrames)>>,
                       depth |-> <<Len(S.stack), Len(res.s.stack)>>,
                       handlers |-> Len(S.exceptionHandlers)])]

\* Array.prototype.forEach of the host on the array object: callback(element, index,
\* array) for each element in turn, the callback being the wrapper of a closure
RECURSIVE ForEach(_, _, _, _)
ForEachNext(res, array, callback, i) ==
    IF res.r.t = "thrown" THEN res ELSE ForEach(res.s, array, callback, i + 1)
ForEach(S, array, callback, i) ==
    IF callback.t # "wrapper" THEN Res(S, Val("thrown", 0, ""))
    ELSE IF i > Len(S.heap.objects[array].elements) THEN Res(S, Undef)
    ELSE ForEachNext(executeSyncClosure(S, ClosureRef(callback.n, callback.s),
                                        << S.heap.objects[array].elements[i], Num(i - 1),
                                           ObjectVal(array) >>),
                     array, callback, i)

\* resume(): the VM switches to the coroutine's stacks, the caller's are kept
SwitchTo(S, g) ==
    [S EXCEPT !.stack = S.heap.objects[g].coroutine.stack,
              !.heap.minusOne = S.heap.objects[g].coroutine.minusOne,
              !.callFrames = S.heap.objects[g].coroutine.callFrames,
              !.openUpvalues = S.heap.objects[g].coroutine.openUpvalues,
              !.activeCoroutine = g,
              !.heap.objects[g].coroutine.caller =
                  [stack |-> S.stack, minusOne |-> S.heap.minusOne,
                   callFrames |-> S.callFrames, openUpvalues |-> S.openUpvalues],
              !.heap.objects[g].coroutine.state = "running"]

\* resume(): the first frame of the coroutine, or the value sent in
StartOrContinue(S, g, valueForNext) ==
    IF Len(S.callFrames) = 0
    THEN [StackPut(S, 0, S.heap.objects[g].closure) EXCEPT
             !.callFrames = Append(@, [Frame(S.hist.nextFid, S.heap.objects[g].closure,
                                             1, 0, 0, 0, 0) EXCEPT !.gen = g]),
             !.hist.nextFid = @ + 1]
    ELSE Push(S, valueForNext)

\* resume() after run() has returned.  The coroutine's arrays are the ones the VM
\* has worked on, so they are left as run() left them.
AfterResume(res, g) ==
    IF res.r = "THROWN" THEN res
    ELSE IF res.r = "YIELD" THEN Res([res.s EXCEPT !.activeCoroutine = 0], "YIELD")
    ELSE Res([res.s EXCEPT
                !.activeCoroutine = 0,
                !.heap.objects[g].coroutine.state = "done",
                !.heap.objects[g].coroutine.stack =
                    IF Len(res.s.stack) > 0 THEN Front(res.s.stack) ELSE <<>>,
                !.heap.objects[g].coroutine.minusOne = res.s.heap.minusOne,
                !.heap.objects[g].coroutine.callFrames = res.s.callFrames,
                !.heap.minusOne = res.s.heap.objects[g].coroutine.caller.minusOne,
                !.stack = Append(res.s.heap.objects[g].coroutine.caller.stack,
                                 IF Len(res.s.stack) > 0 THEN Last(res.s.stack) ELSE Null),
                !.callFrames = res.s.heap.objects[g].coroutine.caller.callFrames,
                !.openUpvalues = res.s.heap.objects[g].coroutine.caller.openUpvalues],
             "OK")

\* GeneratorObject.next after resume() has returned
AfterNext(res, g) ==
    IF res.r = "THROWN" THEN Res(res.s, Val("thrown", 0, ""))
    ELSE IF res.r = "YIELD"
    THEN IterResult([PopS(res.s) EXCEPT !.heap.objects[g].value = PopV(res.s)],
                    PopV(res.s), FALSE)
    ELSE IterResult([PopS(res.s) EXCEPT !.heap.objects[g].done = TRUE],
                    NullishToNull(PopV(res.s)), TRUE)

\* GeneratorObject.next(value)
GeneratorNext(S, g, value) ==
    IF S.heap.objects[g].done
    THEN IterResult([S EXCEPT !.heap.objects[g].calls = @ + 1], Null, TRUE)
    ELSE AfterNext(AfterResume(RunNested(StartOrContinue(
                       SwitchTo([S EXCEPT !.heap.objects[g].calls = @ + 1], g), g, value)), g),
                   g)

OP_YIELD(S, ins) ==
    IF S.activeCoroutine = 0
    THEN \* vm.activeCoroutine is null: the assignment to its stack throws, and the
         \* TypeError leaves run(), resume() and next() for the catch of OP_CALL_METHOD
         Res(PopS(S), "THROWN")
    ELSE Res([PopS(S) EXCEPT
                !.heap.objects[S.activeCoroutine].coroutine.stack = PopS(S).stack,
                !.heap.objects[S.activeCoroutine].coroutine.minusOne = S.heap.minusOne,
                !.heap.objects[S.activeCoroutine].coroutine.callFrames = S.callFrames,
                !.heap.objects[S.activeCoroutine].coroutine.openUpvalues = S.openUpvalues,
                !.heap.objects[S.activeCoroutine].coroutine.state = "suspended",
                !.heap.minusOne = S.heap.objects[S.activeCoroutine].coroutine.caller.minusOne,
                !.stack = Append(S.heap.objects[S.activeCoroutine].coroutine.caller.stack,
                                 PopV(S)),
                !.callFrames = S.heap.objects[S.activeCoroutine].coroutine.caller.callFrames,
                !.openUpvalues =
                    S.heap.objects[S.activeCoroutine].coroutine.caller.openUpvalues],
             "YIELD")

\* args.map(arg => arg instanceof Closure ? (...a) => vm.executeSyncClosure(arg, a) : arg)
NativeArgs(args) ==
    [i \in 1..Len(args) |-> IF args[i].t = "closure" THEN Val("wrapper", args[i].n, args[i].s)
                          ELSE args[i]]

\* `result === undefined ? null : result` pushed after a native method has returned;
\* the catch around the call when it has thrown
PushResult(res) ==
    IF res.r.t = "thrown"
    THEN Res(RuntimeError(res.s, Str("Native method on plain object error"), TRUE),
             "RUNTIME_ERROR")
    ELSE Res(Push(res.s, UndefToNull(res.r)), "OK")

\* the receiver is an object of the heap of the given kind
IsObject(S, v, kind) ==
    v.t = "object" /\ v.n \in 1..Len(S.heap.objects) /\ S.heap.objects[v.n].kind = kind

\* the walk of OP_GET_PROPERTY_PROTO and of OP_CALL_METHOD along the prototype chain:
\* the nearest own property of the name, undefined when there is none
RECURSIVE ChainGet(_, _, _)
ChainGet(S, currentObject, propName) ==
    IF currentObject.t # "object" THEN Undef
    ELSE IF S.heap.objects[currentObject.n].kind # "vm" THEN Undef
    ELSE IF S.heap.objects[currentObject.n].properties[propName] # Absent
    THEN S.heap.objects[currentObject.n].properties[propName]
    ELSE ChainGet(S, S.heap.objects[currentObject.n].prototype, propName)

\* OP_CALL_METHOD on a VM object whose prototype chain holds the Closure `method`
\* as its nearest own property of the name called
CallMethodClosure(S, receiver, args, method) ==
    IF Len(args) # S.heap.functions[method.s].arity
    THEN Res(RuntimeError(S, Str("Expected a different number of arguments."), TRUE),
             "RUNTIME_ERROR")
    ELSE IF S.heap.functions[method.s].isAsync
    THEN Res(Push(scheduleMicrotask(NewPromise(S),
                                    [AsyncCallTask(method, Len(S.promises) + 1, args,
                                                   CurFrame(S).fid)
                                       EXCEPT !.receiver = receiver]),
                  PromiseVal(Len(S.promises) + 1)), "OK")
    ELSE IF S.heap.functions[method.s].isGenerator
    THEN Res(Push(NewObject(S, GeneratorObject(method)), ObjectVal(Len(S.heap.objects) + 1)),
             "OK")
    ELSE Res([S EXCEPT !.stack = (@ \o <<receiver>>) \o args,
                       !.callFrames = Append(@, Frame(S.hist.nextFid, method, 1,
                                                      Len(S.stack), 0,
                                                      CurFrame(S).task, CurFrame(S).by)),
                       !.hist.nextFid = @ + 1], "OK")

\* OP_CALL_METHOD once the receiver and the arguments are off the stack
CallMethodOn(S, receiver, args, methodName) ==
    CASE receiver.t = "native" /\ receiver.s = "console" /\ methodName = "log" ->
              Res(Push([S EXCEPT !.log = Append(@, [ch |-> "log", id |-> 0,
                                                   v |-> IF Len(args) >= 1 THEN args[1]
                                                         ELSE Undef])],
                       Null), "OK")
      [] IsObject(S, receiver, "generator") /\ methodName = "next" ->
              PushResult(GeneratorNext(S, receiver.n,
                                       IF Len(args) >= 1 THEN NativeArgs(args)[1] ELSE Undef))
      [] IsObject(S, receiver, "generator") /\ methodName = "return" ->
              \* GeneratorObject.return(value)
              PushResult(IterResult([S EXCEPT !.heap.objects[receiver.n].done = TRUE,
                                              !.heap.objects[receiver.n].returned = TRUE],
                                    NullishToNull(IF Len(args) >= 1 THEN NativeArgs(args)[1]
                                                  ELSE Undef),
                                    TRUE))
      [] receiver.t = "promise" /\ methodName = "then" ->
              PushResult(Res(Then(S, receiver.n,
                                  IF Len(args) >= 1 /\ args[1].t = "closure"
                                  THEN Hnd("closure", 0, NoFrame, args[1].s, args[1].n)
                                  ELSE NoHnd,
                                  IF Len(args) >= 2 /\ args[2].t = "closure"
                                  THEN Hnd("closure", 0, NoFrame, args[2].s, args[2].n)
                                  ELSE NoHnd),
                             PromiseVal(Len(S.promises) + 1)))
      [] IsObject(S, receiver, "array") /\ methodName = "forEach" ->
              PushResult(ForEach(S, receiver.n,
                                 IF Len(args) >= 1 THEN NativeArgs(args)[1] ELSE Undef, 1))
      [] receiver.t = "timer" /\ methodName = "clear" ->
              \* handle.clear() of the object setTimeout returned
              PushResult(Res([S EXCEPT !.timers = SelectSeq(@, LAMBDA timer :
                                                                  timer.id # receiver.n),
                                       !.pendingHostOps = @ - 1],
                             Undef))
      [] IsObject(S, receiver, "vm") /\ methodName \notin ObjectPrototypeNames
         /\ ChainGet(S, receiver, methodName).t = "closure" ->
              CallMethodClosure(S, receiver, args, ChainGet(S, receiver, methodName))
      [] OTHER ->
              Res(RuntimeError(S, Str("Method not found or not callable on instance."), TRUE),
                  "RUNTIME_ERROR")

\* the receivers the scripts use: console, a GeneratorObject, a timer handle, a VM
\* object, a PromiseV1 (its method then, with closures or nothing as handlers), a
\* host array (its method forEach)
OP_CALL_METHOD(S, ins) ==
    LET argCount == ins.a
        receiver == PeekV(S, argCount)
        S0 == PeekS(S, argCount)
        n == Len(S0.stack)
        args == SubSeq(S0.stack, n - argCount + 1, n)
    IN IF receiver.t \in {"null", "undefined"}
       THEN Res(RuntimeError(S0, Str("Cannot read properties of null or undefined"), TRUE),
                "RUNTIME_ERROR")
       ELSE CallMethodOn([S0 EXCEPT !.stack = SetLength(@, n - (argCount + 1))],
                         receiver, args, ins.k.s)

\* only the PromiseV1 constructor is instantiated by the scripts
\* OP_NEW: constructor.prototype is created on first use
EnsurePrototype(S, constructor) ==
    IF S.heap.closures[constructor.n].prototype.t \in {"null", "undefined"}
    THEN [NewObject(S, Object("vm", NoProperties, Null, Null)) EXCEPT
             !.heap.closures[constructor.n].prototype = ObjectVal(Len(S.heap.objects) + 1)]
    ELSE S

\* OP_NEW: the instance takes the constructor's slot and the constructor's frame is pushed
Construct(S, constructor, argCount) ==
    [StackPut(NewObject(S, Object("vm", NoProperties, S.heap.closures[constructor.n].prototype, Null)),
              Len(S.stack) - 1 - argCount, ObjectVal(Len(S.heap.objects) + 1))
       EXCEPT !.callFrames = Append(@, Frame(S.hist.nextFid, constructor, 1,
                                             Len(S.stack) - 1 - argCount, 0,
                                             CurFrame(S).task, CurFrame(S).by)),
              !.hist.nextFid = @ + 1]

\* OP_NEW_OBJECT: count pairs are popped, value first, then the object is pushed
RECURSIVE NewObjectFrom(_, _, _)
NewObjectFrom(S, properties, count) ==
    IF count = 0
    THEN Push(NewObject(S, Object("vm", properties, Null, Null)), ObjectVal(Len(S.heap.objects) + 1))
    ELSE NewObjectFrom(PopS(PopS(S)), [properties EXCEPT ![PopV(PopS(S)).s] = PopV(S)],
                       count - 1)

\* the top ins.a values are spliced out of the stack into a host array
OP_NEW_ARRAY(S, ins) ==
    Res(Push(NewObject([S EXCEPT !.stack = SubSeq(@, 1, Len(@) - ins.a)],
                       [Object("array", NoProperties, Null, Null) EXCEPT
                           !.elements = SubSeq(S.stack, Len(S.stack) - ins.a + 1,
                                               Len(S.stack))]),
             ObjectVal(Len(S.heap.objects) + 1)), "OK")

\* `propName in object` for an object of the heap
InJS(S, id, propName) ==
    CASE S.heap.objects[id].kind = "vm" ->
              propName \in {"properties", "prototype"} \cup ObjectPrototypeNames
      [] S.heap.objects[id].kind = "js" ->
              S.heap.objects[id].properties[propName] # Absent
              \/ propName \in ObjectPrototypeNames
      [] S.heap.objects[id].kind = "generator" ->
              propName \in {"done", "value"} \cup ObjectPrototypeNames

\* object[propName] when `propName in object`
GetJS(S, id, propName) ==
    CASE S.heap.objects[id].kind = "vm" /\ propName = "properties" ->
              Val("properties", id, "")
      [] S.heap.objects[id].kind = "vm" /\ propName = "prototype" ->
              S.heap.objects[id].prototype
      [] S.heap.objects[id].kind = "js" /\ S.heap.objects[id].properties[propName] # Absent ->
              S.heap.objects[id].properties[propName]
      [] S.heap.objects[id].kind = "generator" /\ propName = "done" ->
              Bool(S.heap.objects[id].done)
      [] S.heap.objects[id].kind = "generator" /\ propName = "value" ->
              S.heap.objects[id].value
      [] OTHER -> Val("function", 0, IF S.heap.objects[id].kind = "generator"
                                     THEN "GeneratorObject" ELSE "Object")

\* the objects the scripts read properties of are objects of the heap
OP_GET_PROPERTY_PROTO(S, ins) ==
    IF PopV(S).t \in {"null", "undefined"}
    THEN Res(RuntimeError(PopS(S), Str("Cannot read property of null or undefined."), TRUE),
             "RUNTIME_ERROR")
    ELSE IF PopV(S).t = "object" /\ InJS(S, PopV(S).n, ins.k.s)
    THEN Res(Push(PopS(S), GetJS(S, PopV(S).n, ins.k.s)), "OK")
    ELSE Res(Push(PopS(S), ChainGet(S, PopV(S), ins.k.s)), "OK")

OP_GET_PROTOTYPE(S, ins) ==
    IF PeekV(S, 0).t # "closure"
    THEN Res(RuntimeError(PeekS(S, 0),
                          Str("Can only get the prototype of functions/classes."), TRUE),
             "RUNTIME_ERROR")
    ELSE Res(Push(PopS(EnsurePrototype(S, PeekV(S, 0))),
                  EnsurePrototype(S, PeekV(S, 0)).heap.closures[PeekV(S, 0).n].prototype),
             "OK")

\* the objects the scripts set properties of are VM objects; a property set on
\* another kind of object is not read by them
OP_SET_PROPERTY_PROTO(S, ins) ==
    LET value == PopV(S)
        object == PopV(PopS(S))
        S1 == PopS(PopS(S))
    IN IF IsObject(S, object, "vm")
       THEN Res(Push([S1 EXCEPT !.heap.objects[object.n].properties[ins.k.s] = value],
                     value), "OK")
       ELSE IF object.t \in {"null", "undefined", "number", "string", "boolean"}
       THEN Res(RuntimeError(S1, Str("Cannot set property on a non-object."), TRUE),
                "RUNTIME_ERROR")
       ELSE Res(Push(S1, value), "OK")

OP_NEW(S, ins) ==
    LET argCount == ins.a
        constructor == PeekV(S, argCount)
        S0 == PeekS(S, argCount)
    IN CASE constructor.t = "native" /\ constructor.s = "Promise" ->
              IF argCount = 1
              THEN LET executor == PopV(S0)
                       S1 == PopS(PopS(S0))
                   IN IF executor.t # "closure"
                      THEN Res(RuntimeError(S1, Str("Promise constructor expects a function."),
                                            TRUE), "RUNTIME_ERROR")
                      ELSE LET S2 == NewPromiseWithExecutor(S1, executor, CurFrame(S0).fid)
                           IN Res(Push(S2, PromiseVal(Len(S2.promises))), "OK")
              ELSE Res(RuntimeError(S0,
                         Str("Promise constructor expects exactly one argument."), TRUE),
                       "RUNTIME_ERROR")
         [] constructor.t # "closure" ->
              Res(RuntimeError(S0, Str("Can only instantiate a class (closure)."), TRUE),
                  "RUNTIME_ERROR")
         [] OTHER -> Res(Construct(EnsurePrototype(S0, constructor), constructor, argCount),
                         "OK")

OP_AWAIT(S, ins) ==
    LET value == PeekV(S, 0)
        S0 == PeekS(S, 0)
    IN IF value.t # "promise" THEN Res(S0, "OK")
       ELSE LET frameToResume ==
                    [Last(S0.callFrames) EXCEPT
                        !.awaited = value.n, !.depth = Len(S0.stack),
                        !.saved = SubSeq(S0.stack, Last(S0.callFrames).stackBase + 1,
                                         Len(S0.stack))]
                S1 == [S0 EXCEPT !.callFrames = Front(@)]
            IN Res(Then(S1, value.n, Hnd("awaitRes", 0, frameToResume, "", 0),
                            Hnd("awaitRej", 0, frameToResume, "", 0)),
                   "YIELD")

InstructionHandlers(S, ins) ==
    CASE ins.op = "CONSTANT" -> Res(Push(S, ins.k), "OK")
      [] ins.op = "YIELD" -> OP_YIELD(S, ins)
      [] ins.op = "NEW_OBJECT" -> Res(NewObjectFrom(S, NoProperties, ins.a), "OK")
      [] ins.op = "NEW_ARRAY" -> OP_NEW_ARRAY(S, ins)
      [] ins.op = "GET_PROPERTY_PROTO" -> OP_GET_PROPERTY_PROTO(S, ins)
      [] ins.op = "PUSH_NULL" -> Res(Push(S, Null), "OK")
      [] ins.op = "PUSH_TRUE" -> Res(Push(S, Bool(TRUE)), "OK")
      [] ins.op = "PUSH_FALSE" -> Res(Push(S, Bool(FALSE)), "OK")
      [] ins.op = "JUMP_IF_FALSE" -> OP_JUMP_IF_FALSE(S, ins)
      [] ins.op = "LOOP" -> Res([S EXCEPT !.callFrames[Top(S)].ip = @ - ins.a], "OK")
      [] ins.op = "POP" -> Res(PopS(S), "OK")
      [] ins.op = "CLOSURE" -> OP_CLOSURE(S, ins)
      [] ins.op = "DEFINE_GLOBAL" -> OP_DEFINE_GLOBAL(S, ins)
      [] ins.op = "GET_GLOBAL" -> OP_GET_GLOBAL(S, ins)
      [] ins.op = "GET_NATIVE" -> OP_GET_NATIVE(S, ins)
      [] ins.op = "GET_LOCAL" -> Res(Push(S, StackAt(S, CurFrame(S).stackBase + ins.a)), "OK")
      [] ins.op = "GET_UPVALUE" -> Res(Push(S, ReadUpvalue(S, UpvalueOf(S, ins.a))), "OK")
      [] ins.op = "SET_UPVALUE" ->
            Res(WriteUpvalue(PeekS(S, 0), UpvalueOf(S, ins.a), PeekV(S, 0)), "OK")
      [] ins.op = "INCREMENT_UPVALUE" -> OP_INCREMENT_UPVALUE(S, ins)
      [] ins.op = "SET_LOCAL" -> OP_SET_LOCAL(S, ins)
      [] ins.op = "JUMP" -> Res([S EXCEPT !.callFrames[Top(S)].ip = @ + ins.a], "OK")
      [] ins.op = "SETUP_TRY" -> OP_SETUP_TRY(S, ins)
      [] ins.op = "POP_CATCH" ->
            Res([S EXCEPT !.exceptionHandlers = IF @ = <<>> THEN @ ELSE Front(@)], "OK")
      [] ins.op = "THROW" -> OP_THROW(S, ins)
      [] ins.op = "CALL" -> OP_CALL(S, ins)
      [] ins.op = "RETURN" -> OP_RETURN(S, ins)
      [] ins.op = "CALL_METHOD" -> OP_CALL_METHOD(S, ins)
      [] ins.op = "NEW" -> OP_NEW(S, ins)
      [] ins.op = "AWAIT" -> OP_AWAIT(S, ins)
      [] ins.op = "GET_PROTOTYPE" -> OP_GET_PROTOTYPE(S, ins)
      [] ins.op = "DUPLICATE" -> Res(Push(PeekS(S, 0), PeekV(S, 0)), "OK")
      [] ins.op = "CLOSE_UPVALUE" -> Res(PopS(closeUpvalues(S, Len(S.stack) - 1)), "OK")
      [] ins.op = "SET_PROPERTY_PROTO" -> OP_SET_PROPERTY_PROTO(S, ins)

-----------------------------------------------------------------------------
(* Microtasks *)

\* the body of the runMicrotasks loop for one task taken from the queue
RunTask(S, task) ==
    CASE task.kind = "call" ->
           LET S1 == [S EXCEPT !.stack = (@ \o <<task.callee>>) \o task.args]
           IN [S1 EXCEPT
                 !.callFrames = Append(@, Frame(S.hist.nextFid, task.callee, 1,
                                                Len(S1.stack) - 1 - Len(task.args),
                                                task.promise, task.tid, task.by)),
                 !.hist.nextFid = @ + 1]
      [] task.kind = "res" -> ResolveInternal(S, task.p, task.v)
      [] task.kind = "rej" -> RejectInternal(S, task.p, task.v)
      [] task.kind = "thenF" -> ScheduleSettle(S, task.cb, S.promises[task.p].value, TRUE)
      [] task.kind = "thenR" -> ScheduleSettle(S, task.cb, S.promises[task.p].reason, FALSE)
      [] task.kind = "resume" ->
           Push(PopS([S EXCEPT !.callFrames =
                                  Append(@, [task.frame EXCEPT !.task = task.tid])]),
                task.v)
      [] task.kind = "resumeErr" ->
           [RuntimeError([S EXCEPT !.callFrames =
                                     Append(@, [task.frame EXCEPT !.task = task.tid])],
                         task.v, TRUE)
              EXCEPT !.callFrames = IF @ = <<>> THEN @ ELSE Front(@)]

-----------------------------------------------------------------------------
(* VM.interpret: the event loop *)

NativeObjectOf(name) ==
    IF name \in NativeGlobals THEN NativeVal(name, 0) ELSE Absent

InitHist ==
    [nextFid |-> 1, nextTid |-> 1, nextTimer |-> 1, errCount |-> 0, lastErr |-> [msg |-> Undef, branch |-> "none", promise |-> 0, handler |-> ExceptionHandler(0, 0, 0, 0),
                 frames |-> 0, handlers |-> 0],
     crashed |-> FALSE, script |-> "", returned |-> Absent, regs |-> <<>>, ncalls |-> 0,
     rets |-> <<>>, astray |-> FALSE, syncs |-> <<>>, tries |-> <<>>]

\* the VM after its constructor
Init ==
    /\ stack = <<>>
    /\ callFrames = <<>>
    /\ exceptionHandlers = <<>>
    /\ microtaskQueue = <<>>
    /\ globals = [name \in UserGlobals \cup NativeGlobals |-> NativeObjectOf(name)]
    /\ pendingHostOps = 0
    /\ hasError = FALSE
    /\ promises = <<>>
    /\ timers = <<>>
    /\ openUpvalues = 0
    /\ activeCoroutine = 0
    /\ heap = NoHeap
    /\ log = <<>>
    /\ phase = "start"
    /\ outcome = [result |-> "NONE", value |-> Undef]
    /\ hist = InitHist
    /\ compiler = [program |-> <<>>, current |-> <<>>]

\* interpret(program) up to the loop: the script promise is promise 1
Interpret ==
    /\ phase = "start"
    /\ \E script \in Scripts :
         LET S1 == NewPromise(NewClosure([Cur EXCEPT !.hist.script = script], script, <<>>))
             S2 == scheduleMicrotask(S1, AsyncCallTask(ClosureRef(Len(S1.heap.closures),
                                                                  script), 1, <<>>, 0))
         IN Becomes([S2 EXCEPT !.hasError = FALSE])
    /\ phase' = "loop"
    /\ UNCHANGED outcome

\* the phase after runMicrotasks/run: wait for the host when idle, else loop
AfterRun(S) ==
    IF Len(S.callFrames) = 0 /\ Len(S.microtaskQueue) = 0 /\ S.pendingHostOps > 0
    THEN "idle" ELSE "loop"

\* the while condition and the hasError break
LoopTest ==
    /\ phase = "loop"
    /\ phase' = IF (Len(callFrames) > 0 \/ Len(microtaskQueue) > 0 \/ pendingHostOps > 0)
                   /\ ~hasError
                THEN "drain" ELSE "finish"
    /\ UNCHANGED <<stack, callFrames, exceptionHandlers, microtaskQueue, globals,
                   pendingHostOps, hasError, promises, timers, openUpvalues,
                   activeCoroutine, heap, log, outcome, hist, compiler>>

\* runMicrotasks: one iteration of its loop
DrainTask ==
    /\ phase = "drain"
    /\ Len(microtaskQueue) > 0
    /\ ~hasError
    /\ Becomes(RunTask([Cur EXCEPT !.microtaskQueue = Tail(@)], Head(microtaskQueue)))
    /\ UNCHANGED <<phase, outcome>>

\* runMicrotasks returns; run() is entered when a frame is on the call stack
DrainEnd ==
    /\ phase = "drain"
    /\ Len(microtaskQueue) = 0 \/ hasError
    /\ phase' = IF Len(callFrames) > 0
                THEN (IF hasError THEN "finish" ELSE "run")
                ELSE AfterRun(Cur)
    /\ UNCHANGED <<stack, callFrames, exceptionHandlers, microtaskQueue, globals,
                   pendingHostOps, hasError, promises, timers, openUpvalues,
                   activeCoroutine, heap, log, outcome, hist, compiler>>

RunStep ==
    /\ phase = "run"
    /\ Len(callFrames) < MaxDepth
    /\ \E res \in {RunInstruction(Cur)} :
          /\ Becomes(res.s)
          /\ phase' = IF res.r = "YIELD" THEN AfterRun(res.s)
                      ELSE IF res.s.hasError THEN "finish"
                      ELSE IF Len(res.s.callFrames) = 0 THEN AfterRun(res.s)
                      ELSE "run"
    /\ UNCHANGED outcome

\* fireCallback of a timer, run by the host while interpret waits
FireCallback(S, i) ==
    LET callback == S.timers[i].cb
        S1 == [S EXCEPT !.timers = SubSeq(@, 1, i - 1) \o SubSeq(@, i + 1, Len(@))]
        S2 == IF callback.t = "closure"
              THEN scheduleMicrotask(S1, AsyncCallTask(callback, 0, <<>>, 0))
              ELSE NativeCallS(S1, callback, <<>>)
    IN [S2 EXCEPT !.pendingHostOps = @ - 1]

TimerFire ==
    /\ phase = "idle"
    /\ \E i \in 1..Len(timers) : Becomes(FireCallback(Cur, i))
    /\ UNCHANGED <<phase, outcome>>

\* the 10 ms wait of interpret elapses
IdleWake ==
    /\ phase = "idle"
    /\ phase' = "loop"
    /\ UNCHANGED <<stack, callFrames, exceptionHandlers, microtaskQueue, globals,
                   pendingHostOps, hasError, promises, timers, openUpvalues,
                   activeCoroutine, heap, log, outcome, hist, compiler>>

\* interpret after the loop
Finish ==
    /\ phase = "finish"
    /\ LET S == Cur
           script == S.promises[1]
       IN IF S.hasError
          THEN IF script.state = "pending"
               THEN LET errorMessage == IF Len(S.stack) > 0 THEN PopV(S)
                                        ELSE Str("Unknown runtime error.")
                        S1 == IF Len(S.stack) > 0 THEN PopS(S) ELSE S
                    IN /\ Becomes(PromiseReject(S1, 1, errorMessage))
                       /\ outcome' = [result |-> "RUNTIME_ERROR", value |-> script.reason]
               ELSE /\ Becomes(S)
                    /\ outcome' = [result |-> "RUNTIME_ERROR", value |-> script.reason]
          ELSE IF script.state = "fulfilled"
          THEN /\ Becomes([S EXCEPT !.stack = <<>>])
               /\ outcome' = [result |-> "OK", value |-> script.value]
          ELSE IF script.state = "rejected"
          THEN /\ Becomes(S)
               /\ outcome' = [result |-> "RUNTIME_ERROR", value |-> script.reason]
          ELSE /\ Becomes([S EXCEPT !.stack = <<>>])
               /\ outcome' = [result |-> "OK",
                              value |-> IF Len(S.stack) > 0 THEN PopV(S) ELSE Null]
    /\ phase' = "done"

Next ==
    \/ Interpret
    \/ LoopTest
    \/ DrainTask
    \/ DrainEnd
    \/ RunStep
    \/ TimerFire
    \/ IdleWake
    \/ Finish

Spec == Init /\ [][Next]_vars

-----------------------------------------------------------------------------
(* PromiseV1 used directly by host code: promises constructed with a null     *)
(* executor, settled and chained through the public methods, with the         *)
(* microtasks drained one at a time in between.                               *)

\* values and reasons the host settles with
HostValues == {Num(1), Num(2)}

Promises == 1..Len(promises)

InitHost ==
    /\ stack = <<>>
    /\ callFrames = <<>>
    /\ exceptionHandlers = <<>>
    /\ microtaskQueue = <<>>
    /\ globals = [name \in UserGlobals \cup NativeGlobals |-> NativeObjectOf(name)]
    /\ pendingHostOps = 0
    /\ hasError = FALSE
    /\ promises = <<>>
    /\ timers = <<>>
    /\ openUpvalues = 0
    /\ activeCoroutine = 0
    /\ heap = [NoHeap EXCEPT !.functions = <<>>]   \* the host has loaded no program
    /\ log = <<>>
    /\ phase = "host"
    /\ outcome = [result |-> "NONE", value |-> Undef]
    /\ hist = InitHist
    /\ compiler = [program |-> <<>>, current |-> <<>>]

NoteCall(S, p) == [S EXCEPT !.promises[p].calls = @ + 1, !.hist.ncalls = @ + 1]

\* new PromiseV1(null, vm)
HostNew ==
    /\ phase = "host"
    /\ Len(promises) < MaxPromises
    /\ Becomes(NewPromise(Cur))
    /\ UNCHANGED <<phase, outcome>>

\* p.resolve(v), with v a plain value or a promise
HostResolve ==
    /\ phase = "host"
    /\ hist.ncalls < MaxCalls
    /\ \E p \in Promises : \E v \in HostValues \cup {PromiseVal(q) : q \in Promises} :
         Becomes(PromiseResolve(NoteCall(Cur, p), p, v))
    /\ UNCHANGED <<phase, outcome>>

\* p.reject(r)
HostReject ==
    /\ phase = "host"
    /\ hist.ncalls < MaxCalls
    /\ \E p \in Promises : \E r \in HostValues :
         Becomes(PromiseReject(NoteCall(Cur, p), p, r))
    /\ UNCHANGED <<phase, outcome>>

\* p._resolveInternal(v)
HostResolveInternal ==
    /\ phase = "host"
    /\ hist.ncalls < MaxCalls
    /\ \E p \in Promises : \E v \in HostValues \cup {PromiseVal(q) : q \in Promises} :
         Becomes(ResolveInternal(NoteCall(Cur, p), p, v))
    /\ UNCHANGED <<phase, outcome>>

\* p._rejectInternal(r)
HostRejectInternal ==
    /\ phase = "host"
    /\ hist.ncalls < MaxCalls
    /\ \E p \in Promises : \E r \in HostValues :
         Becomes(RejectInternal(NoteCall(Cur, p), p, r))
    /\ UNCHANGED <<phase, outcome>>

\* p.then(onFulfilled, onRejected), each handler a host function or absent
HostThen ==
    /\ phase = "host"
    /\ Len(promises) < MaxPromises
    /\ \E p \in Promises : \E onF \in BOOLEAN : \E onR \in BOOLEAN :
         \E i \in {Len(hist.regs) + 1} :
         \E S \in {Then(Cur, p,
                         IF onF THEN Hnd("host", 0, NoFrame, "", 2 * i - 1) ELSE NoHnd,
                         IF onR THEN Hnd("host", 0, NoFrame, "", 2 * i) ELSE NoHnd)} :
           \* hist.regs: which promise, which handlers, the promise returned
           Becomes([S EXCEPT !.hist.regs =
                       Append(@, [p |-> p, onF |-> onF, onR |-> onR,
                                  np |-> Len(promises) + 1,
                                  state |-> promises[p].state])])
    /\ UNCHANGED <<phase, outcome>>

\* the event loop takes the next microtask
HostDrain ==
    /\ phase = "host"
    /\ Len(microtaskQueue) > 0
    /\ Becomes(RunTask([Cur EXCEPT !.microtaskQueue = Tail(@)], Head(microtaskQueue)))
    /\ UNCHANGED <<phase, outcome>>

NextHost ==
    \/ HostNew
    \/ HostResolve
    \/ HostReject
    \/ HostResolveInternal
    \/ HostRejectInternal
    \/ HostThen
    \/ HostDrain

SpecHost == InitHost /\ [][NextHost]_vars

-----------------------------------------------------------------------------
(* The compiler: the visitors of statements, declarations and the expressions  *)
(* they hold.  A program is compiled by one call of Compiler.compile; an Error *)
(* thrown by a visitor ends the traversal and is kept in `thrown`.  The        *)
(* compiled program is then run by the VM.                                     *)

\* the AST of  L1 { L2 { ... leaf; } }  where each Li is `while (true)` or
\* `for (; true; 0)` and leaf a break or continue statement
RECURSIVE Nest(_, _)
Nest(kinds, leaf) ==
    IF kinds = <<>> THEN [type |-> leaf, body |-> <<>>]
    ELSE [type |-> Head(kinds),
          body |-> << [type |-> "BlockStatement", body |-> <<Nest(Tail(kinds), leaf)>>] >>]

\* new CompilerState(null, functionName).  History fields: nest holds the loop
\* statements being compiled (numbered in the order they are entered), marks the
\* places of each compiled loop (cont: where its next iteration is prepared, brk: the
\* first instruction after it), jumps the break and continue statements compiled
\* (with the table of locals before and after), decls the SET_LOCAL instructions
\* that initialise a declared local and exits the scope-exit instructions (each with
\* the slot of its local), tries the try statements (where they start and end, and
\* the table of locals before and after).
CompilerState(functionName) ==
    [bytecode |-> <<>>, constants |-> <<>>,
     locals |-> << [name |-> functionName, depth |-> 0, isCaptured |-> FALSE] >>,
     scopeDepth |-> 0, loops |-> <<>>, thrown |-> "",
     nest |-> <<>>, entered |-> 0, marks |-> <<>>, jumps |-> <<>>,
     decls |-> <<>>, exits |-> <<>>, tries |-> <<>>]

\* emitByte / emitBytes, one instruction per element
Emit(compilerState, code) == [compilerState EXCEPT !.bytecode = @ \o code]

\* the value of each opcode the compiled programs use
Opcode(op) ==
    CASE op = "CONSTANT" -> 0
      [] op = "PUSH_NULL" -> 1
      [] op = "PUSH_TRUE" -> 2
      [] op = "PUSH_FALSE" -> 3
      [] op = "POP" -> 4
      [] op = "GET_GLOBAL" -> 48
      [] op = "GET_LOCAL" -> 50
      [] op = "SET_LOCAL" -> 51
      [] op = "DEFINE_GLOBAL" -> 60
      [] op = "JUMP" -> 64
      [] op = "JUMP_IF_FALSE" -> 65
      [] op = "LOOP" -> 66
      [] op = "SETUP_TRY" -> 80
      [] op = "POP_CATCH" -> 81
      [] op = "THROW" -> 82
      [] op = "RETURN" -> 97
      [] op = "CLOSE_UPVALUE" -> 99
      [] op = "GET_NATIVE" -> 112

\* the instructions with a one-byte operand, kept in the field a
OneOperand == {"CONSTANT", "GET_GLOBAL", "DEFINE_GLOBAL", "GET_LOCAL", "SET_LOCAL",
               "GET_NATIVE"}

\* bytecode[bytecode.length - 1]: the opcode of an instruction without operand, the
\* operand of an instruction with one, the low byte of a jump offset
lastOp(bytecode) ==
    IF Last(bytecode).op \in OneOperand THEN Last(bytecode).a
    ELSE IF Last(bytecode).op \in {"JUMP", "JUMP_IF_FALSE", "LOOP", "SETUP_TRY"}
    THEN Last(bytecode).a % 256
    ELSE Opcode(Last(bytecode).op)

\* further programs, each the list of its statements
Programs ==
    LET Lit(n) == [type |-> "NumericLiteral", value |-> n]
        Boolean(b) == [type |-> "BooleanLiteral", bool |-> b]
        Id(name) == [type |-> "Identifier", name |-> name]
        None == [type |-> "None"]
        Expr(e) == [type |-> "ExpressionStatement", expression |-> e]
        Let(name, init) == [type |-> "VariableDeclaration", name |-> name, init |-> init]
        Block(body) == [type |-> "BlockStatement", body |-> body]
        If(test, consequent, alternate) ==
            [type |-> "IfStatement", test |-> test, consequent |-> consequent,
             alternate |-> alternate]
        Try(block, param, handler) ==
            [type |-> "TryStatement", block |-> block, param |-> param, handler |-> handler]
        Throw(e) == [type |-> "ThrowStatement", argument |-> e]
        Return == [type |-> "ReturnStatement", argument |-> None]
        Break == [type |-> "BreakStatement", body |-> <<>>]
        While(body) == [type |-> "WhileStatement", body |-> <<body>>]
        UseY == Block(<< Let("y", Lit(5)), Expr(Id("y")) >>)
    IN [ \* let x = 1; { let y = 5; y; }
         declGlobal |-> << Let("x", Lit(1)), UseY >>,
         \* { let y = 5; y; }
         declBlock |-> << UseY >>,
         \* try { throw 1; } catch (e) { e; } { let y = 5; y; }
         tryThrow |-> << Try(Block(<< Throw(Lit(1)) >>), "e", Block(<< Expr(Id("e")) >>)),
                         UseY >>,
         \* try { 1; } catch (e) { e; } { let y = 5; y; }
         tryNormal |-> << Try(Block(<< Expr(Lit(1)) >>), "e", Block(<< Expr(Id("e")) >>)),
                          UseY >>,
         \* try { throw 1; } catch { 2; } { let y = 5; y; }
         tryBare |-> << Try(Block(<< Throw(Lit(1)) >>), "", Block(<< Expr(Lit(2)) >>)),
                        UseY >>,
         \* while (true) { let y = 1; if (false) { break; } y; return; }
         loopBreak |-> << While(Block(<< Let("y", Lit(1)),
                                         If(Boolean(FALSE), Block(<< Break >>), None),
                                         Expr(Id("y")), Return >>)) >>,
         \* if (true) { 1; } else { return; }
         ifElseReturn |-> << If(Boolean(TRUE), Block(<< Expr(Lit(1)) >>),
                                Block(<< Return >>)) >>,
         \* if (false) { 1; } else { return; }
         elseReturns |-> << If(Boolean(FALSE), Block(<< Expr(Lit(1)) >>),
                               Block(<< Return >>)) >>,
         \* 1; ... 1; let x = 1;   with as many `1;` as make the constant index of the
         \* name x the value of OP_RETURN
         lastOperand |-> [i \in 1..(Opcode("RETURN") - 1) |-> Expr(Lit(1))]
                         \o << Let("x", Lit(1)) >>,
         \* 1; ... 1;   one more than the constant pool may hold
         manyConstants |-> [i \in 1..(MaxIndex + 2) |-> Expr(Lit(1))],
         \* 1; ... 1; x;   the name x is the constant after the last index
         manyNames |-> [i \in 1..(MaxIndex + 1) |-> Expr(Lit(1))] \o << Expr(Id("x")) >>,
         \* { let v1; ... let v255; }   the locals fill the slots up to the last index
         maxLocals |-> << Block([i \in 1..MaxIndex |-> Let(ToString(i), None)]) >>,
         \* { let v1; ... let v256; }   one local more
         manyLocals |-> << Block([i \in 1..(MaxIndex + 1) |-> Let(ToString(i), None)]) >> ]

\* constants.push(value); the index returned is the length before
addConstant(current, value) == [current EXCEPT !.constants = Append(@, value)]

emitConstant(current, value) ==
    IF Len(current.constants) > MaxIndex
    THEN [current EXCEPT !.thrown = "Constant pool limit exceeded."]
    ELSE Emit(addConstant(current, value),
              << Ins("CONSTANT", Len(current.constants), value) >>)

\* the slot of the innermost local of the name, -1 when there is none
resolveLocal(current, name) ==
    IF \E i \in DOMAIN current.locals : current.locals[i].name = name
    THEN (CHOOSE i \in DOMAIN current.locals :
             /\ current.locals[i].name = name
             /\ \A j \in DOMAIN current.locals : current.locals[j].name = name => j <= i) - 1
    ELSE -1

addLocal(current, name) ==
    IF Len(current.locals) > MaxIndex
    THEN [current EXCEPT !.thrown = "Too many local variables."]
    ELSE [current EXCEPT !.locals = Append(@, [name |-> name, depth |-> current.scopeDepth,
                                               isCaptured |-> FALSE])]

\* the redeclaration check looks at the locals of the current scope only
declareVariable(current, name) ==
    IF current.scopeDepth = 0 THEN current
    ELSE IF \E i \in DOMAIN current.locals :
               /\ current.locals[i].name = name
               /\ \A j \in i..Len(current.locals) :
                     current.locals[j].depth = -1
                     \/ current.locals[j].depth >= current.scopeDepth
    THEN [current EXCEPT !.thrown = "Identifier has already been declared."]
    ELSE addLocal(current, name)

defineVariable(current, name) ==
    IF current.thrown # "" THEN current
    ELSE IF resolveLocal(current, name) # -1
    THEN [Emit(current, << Ins("SET_LOCAL", resolveLocal(current, name), Null) >>) EXCEPT
             !.decls = Append(@, [at |-> Len(current.bytecode) + 1,
                                  slot |-> resolveLocal(current, name)])]
    ELSE Emit(addConstant(current, Str(name)),
              << Ins("DEFINE_GLOBAL", Len(current.constants), Str(name)) >>)

\* no program has an enclosing function, so no name resolves to an upvalue
emitGetVariable(current, name) ==
    IF resolveLocal(current, name) # -1
    THEN Emit(current, << Ins("GET_LOCAL", resolveLocal(current, name), Null) >>)
    ELSE Emit(addConstant(current, Str(name)),
              << Ins(IF name \in {"console", "Math", "performance", "Date", "Object",
                                  "Promise"}
                     THEN "GET_NATIVE" ELSE "GET_GLOBAL",
                     Len(current.constants), Str(name)) >>)

\* path.visit() of an expression: a literal or an identifier that is read
Visit(current, node) ==
    CASE node.type = "NumericLiteral" -> emitConstant(current, Num(node.value))
      [] node.type = "BooleanLiteral" ->
             Emit(current, << Ins(IF node.bool THEN "PUSH_TRUE" ELSE "PUSH_FALSE", 0, Null) >>)
      [] node.type = "Identifier" -> emitGetVariable(current, node.name)

\* patchJump for each of the given jump instructions: the offset reaches the end of
\* the bytecode emitted so far
patchJumps(compilerState, offsets) ==
    [compilerState EXCEPT
        !.bytecode = [i \in DOMAIN compilerState.bytecode |->
                        IF \E k \in DOMAIN offsets : offsets[k] = i
                        THEN [compilerState.bytecode[i] EXCEPT
                                 !.a = Len(compilerState.bytecode) - i]
                        ELSE compilerState.bytecode[i]]]

\* the locals above targetDepth leave the table from its end, an instruction for each
popLocalsToDepth(current, targetDepth) ==
    LET n == Len(current.locals)
        keep == IF \E i \in 1..n : current.locals[i].depth <= targetDepth
                THEN CHOOSE i \in 1..n :
                        /\ current.locals[i].depth <= targetDepth
                        /\ \A j \in (i + 1)..n : current.locals[j].depth > targetDepth
                ELSE 0
    IN [current EXCEPT
           !.locals = SubSeq(@, 1, keep),
           !.bytecode = @ \o [j \in 1..(n - keep) |->
                                Ins(IF current.locals[n - j + 1].isCaptured
                                    THEN "CLOSE_UPVALUE" ELSE "POP", 0, Null)],
           !.exits = @ \o [j \in 1..(n - keep) |->
                             [at |-> Len(current.bytecode) + j, slot |-> n - j]]]

\* the traversal of a list of statements: each by its visitor, in order, the first
\* half of a longer list before the second
RECURSIVE Traverse(_, _)

BlockStatement(current, node) ==
    LET body == Traverse([current EXCEPT !.scopeDepth = @ + 1], node.body)
    IN IF body.thrown # "" THEN body
       ELSE popLocalsToDepth([body EXCEPT !.scopeDepth = @ - 1], body.scopeDepth - 1)

\* `let name = init;` or `let name;`
VariableDeclaration(current, node) ==
    LET init == IF node.init.type = "None"
                THEN Emit(current, << Ins("PUSH_NULL", 0, Null) >>)
                ELSE Visit(current, node.init)
    IN IF init.thrown # "" THEN init
       ELSE defineVariable(declareVariable(init, node.name), node.name)

ExpressionStatement(current, node) ==
    LET expression == Visit(current, node.expression)
    IN IF expression.thrown # "" THEN expression
       ELSE Emit(expression, << Ins("POP", 0, Null) >>)

ThrowStatement(current, node) ==
    LET argument == Visit(current, node.argument)
    IN IF argument.thrown # "" THEN argument
       ELSE Emit(argument, << Ins("THROW", 0, Null) >>)

IfStatement(current, node) ==
    LET test == Visit(current, node.test)
        thenJump == Len(test.bytecode) + 1
        consequent == Traverse(Emit(test, << Ins("JUMP_IF_FALSE", 65535, Null),
                                             Ins("POP", 0, Null) >>),
                               <<node.consequent>>)
        elseJump == Len(consequent.bytecode) + 1
        alternate == Traverse(Emit(patchJumps(Emit(consequent,
                                                   << Ins("JUMP", 65535, Null) >>),
                                              <<thenJump>>),
                                   << Ins("POP", 0, Null) >>),
                              <<node.alternate>>)
    IN IF test.thrown # "" THEN test
       ELSE IF consequent.thrown # "" THEN consequent
       ELSE IF node.alternate.type = "None"
       THEN Emit(patchJumps(consequent, <<thenJump>>), << Ins("POP", 0, Null) >>)
       ELSE IF alternate.thrown # "" THEN alternate
       ELSE patchJumps(alternate, <<elseJump>>)

\* a try statement with a catch clause; node.param is "" for `catch { ... }`
TryStatement(current, node) ==
    LET tryJump == Len(current.bytecode) + 1
        block == Traverse(Emit(current, << Ins("SETUP_TRY", 65535, Null) >>), <<node.block>>)
        exitJump == Len(block.bytecode) + 2
        caught == [patchJumps(Emit(block, << Ins("POP_CATCH", 0, Null),
                                             Ins("JUMP", 65535, Null) >>),
                              <<tryJump>>) EXCEPT !.scopeDepth = @ + 1]
        param == IF node.param # ""
                 THEN defineVariable(declareVariable(caught, node.param), node.param)
                 ELSE Emit(caught, << Ins("POP", 0, Null) >>)
        body == Traverse(param, <<node.handler>>)
        end == patchJumps([body EXCEPT !.scopeDepth = @ - 1], <<exitJump>>)
    IN IF block.thrown # "" THEN block
       ELSE IF body.thrown # "" THEN body
       ELSE [end EXCEPT !.tries = Append(@, [at |-> tryJump, end |-> Len(end.bytecode) + 1,
                                             before |-> current.locals,
                                             after |-> end.locals])]

WhileStatement(current, node) ==
    LET id == current.entered + 1
        loop == [breakJumps |-> <<>>, continueJumps |-> <<>>,
                 scopeDepth |-> current.scopeDepth + 1]
        loopStart == Len(current.bytecode)
        exitJump == loopStart + 2
        body == Traverse(Emit([current EXCEPT !.loops = Append(@, loop),
                                              !.nest = Append(@, id), !.entered = id],
                              << Ins("PUSH_TRUE", 0, Null), Ins("JUMP_IF_FALSE", 65535, Null),
                                 Ins("POP", 0, Null) >>),
                         node.body)
        continues == patchJumps(body, Last(body.loops).continueJumps)
        looped == Emit(continues,
                       << Ins("LOOP", Len(continues.bytecode) + 1 - loopStart, Null) >>)
        exit == Emit(patchJumps(looped, <<exitJump>>), << Ins("POP", 0, Null) >>)
        breaks == patchJumps(exit, Last(exit.loops).breakJumps)
    IN IF body.thrown # "" THEN body
       ELSE [breaks EXCEPT !.loops = Front(@), !.nest = Front(@),
                           !.marks = Append(@, [id |-> id,
                                                cont |-> Len(continues.bytecode) + 1,
                                                brk |-> Len(breaks.bytecode) + 1])]

\* no LoopContext is pushed for a for loop
ForStatement(current, node) ==
    LET id == current.entered + 1
        loopStart == Len(current.bytecode)
        exitJump == loopStart + 2
        body == Traverse(Emit([current EXCEPT !.scopeDepth = @ + 1,
                                              !.nest = Append(@, id), !.entered = id],
                              << Ins("PUSH_TRUE", 0, Null), Ins("JUMP_IF_FALSE", 65535, Null),
                                 Ins("POP", 0, Null) >>),
                         node.body)
        update == Emit(emitConstant(body, Num(0)), << Ins("POP", 0, Null) >>)
        looped == Emit(update, << Ins("LOOP", Len(update.bytecode) + 1 - loopStart, Null) >>)
        exit == Emit(patchJumps(looped, <<exitJump>>), << Ins("POP", 0, Null) >>)
        closed == popLocalsToDepth([exit EXCEPT !.scopeDepth = @ - 1], exit.scopeDepth - 1)
    IN IF body.thrown # "" THEN body
       ELSE [closed EXCEPT !.nest = Front(@),
                           !.marks = Append(@, [id |-> id,
                                                cont |-> Len(body.bytecode) + 1,
                                                brk |-> Len(closed.bytecode) + 1])]

BreakStatement(current, node) ==
    IF Len(current.loops) = 0
    THEN [current EXCEPT !.thrown = "Illegal break statement."]
    ELSE LET popped == popLocalsToDepth(current, Last(current.loops).scopeDepth - 1)
             jump == Len(popped.bytecode) + 1
         IN [Emit(popped, << Ins("JUMP", 65535, Null) >>) EXCEPT
                !.loops[Len(current.loops)].breakJumps = Append(@, jump),
                !.jumps = Append(@, [type |-> node.type, at |-> jump,
                                     loop |-> Last(current.nest),
                                     before |-> current.locals,
                                     after |-> popped.locals])]

ContinueStatement(current, node) ==
    IF Len(current.loops) = 0
    THEN [current EXCEPT !.thrown = "Illegal continue statement."]
    ELSE LET popped == popLocalsToDepth(current, Last(current.loops).scopeDepth - 1)
             jump == Len(popped.bytecode) + 1
         IN [Emit(popped, << Ins("JUMP", 65535, Null) >>) EXCEPT
                !.loops[Len(current.loops)].continueJumps = Append(@, jump),
                !.jumps = Append(@, [type |-> node.type, at |-> jump,
                                     loop |-> Last(current.nest),
                                     before |-> current.locals,
                                     after |-> popped.locals])]

Traverse(current, nodes) ==
    IF nodes = <<>> \/ current.thrown # "" THEN current
    ELSE IF Len(nodes) > 1
    THEN Traverse(Traverse(current, SubSeq(nodes, 1, Len(nodes) \div 2)),
                  SubSeq(nodes, Len(nodes) \div 2 + 1, Len(nodes)))
    ELSE CASE Head(nodes).type = "BlockStatement" ->
                BlockStatement(current, Head(nodes))
           [] Head(nodes).type = "WhileStatement" ->
                WhileStatement(current, Head(nodes))
           [] Head(nodes).type = "ForStatement" ->
                ForStatement(current, Head(nodes))
           [] Head(nodes).type = "BreakStatement" ->
                BreakStatement(current, Head(nodes))
           [] Head(nodes).type = "ContinueStatement" ->
                ContinueStatement(current, Head(nodes))
           [] Head(nodes).type = "VariableDeclaration" ->
                VariableDeclaration(current, Head(nodes))
           [] Head(nodes).type = "ExpressionStatement" ->
                ExpressionStatement(current, Head(nodes))
           [] Head(nodes).type = "IfStatement" ->
                IfStatement(current, Head(nodes))
           [] Head(nodes).type = "ReturnStatement" ->
                \* `return;`
                Emit(current, EmitReturn)
           [] Head(nodes).type = "ThrowStatement" ->
                ThrowStatement(current, Head(nodes))
           [] Head(nodes).type = "TryStatement" ->
                TryStatement(current, Head(nodes))

\* a program about to be compiled
InitCompile ==
    /\ stack = <<>>
    /\ callFrames = <<>>
    /\ exceptionHandlers = <<>>
    /\ microtaskQueue = <<>>
    /\ globals = [name \in UserGlobals \cup NativeGlobals |-> NativeObjectOf(name)]
    /\ pendingHostOps = 0
    /\ hasError = FALSE
    /\ promises = <<>>
    /\ timers = <<>>
    /\ openUpvalues = 0
    /\ activeCoroutine = 0
    /\ heap = NoHeap
    /\ log = <<>>
    /\ phase = "compile"
    /\ outcome = [result |-> "NONE", value |-> Undef]
    /\ hist = InitHist
    /\ \/ \E n \in 0..MaxNest :
            \E kinds \in [1..n -> {"WhileStatement", "ForStatement"}] :
              \E leaf \in {"BreakStatement", "ContinueStatement"} :
                compiler = [program |-> <<Nest(kinds, leaf)>>,
                            current |-> CompilerState("<script>")]
       \/ \E name \in DOMAIN Programs :
            compiler = [program |-> Programs[name], current |-> CompilerState("<script>")]

\* Compiler.compile(source): the traversal, then the closing return unless the last
\* byte emitted is OP_RETURN; the compiled function is what the VM is given
Compile ==
    /\ phase = "compile"
    /\ phase' = "compiled"
    /\ \E result \in {Traverse(CompilerState("<script>"), compiler.program)} :
         /\ compiler' = [compiler EXCEPT
                            !.current = IF result.thrown # "" THEN result
                                        ELSE IF Len(result.bytecode) = 0
                                                \/ lastOp(result.bytecode) # Opcode("RETURN")
                                        THEN Emit(result, EmitReturn)
                                        ELSE result]
         /\ heap' = [heap EXCEPT !.functions.compiled.code = compiler'.current.bytecode]
    /\ UNCHANGED <<stack, callFrames, exceptionHandlers, microtaskQueue, globals,
                   pendingHostOps, hasError, promises, timers, openUpvalues,
                   activeCoroutine, log, outcome, hist>>

\* vm.interpret(program) with the compiled program, up to the loop
Execute ==
    /\ phase = "compiled"
    /\ compiler.current.thrown = ""
    /\ LET S1 == NewPromise(NewClosure([Cur EXCEPT !.hist.script = "compiled"],
                                       "compiled", <<>>))
           S2 == scheduleMicrotask(S1, AsyncCallTask(ClosureRef(Len(S1.heap.closures),
                                                                "compiled"), 1, <<>>, 0))
       IN Becomes([S2 EXCEPT !.hasError = FALSE])
    /\ phase' = "loop"
    /\ UNCHANGED outcome

NextCompile ==
    \/ Compile
    \/ Execute
    \/ LoopTest
    \/ DrainTask
    \/ DrainEnd
    \/ RunStep
    \/ Finish

SpecCompile == InitCompile /\ [][NextCompile]_vars

-----------------------------------------------------------------------------
(* Properties of the event loop and of error handling (specification Spec)    *)

\* the instruction run() executes next
NextIns ==
    IF phase = "run" /\ callFrames # <<>>
          /\ Last(callFrames).ip \in 1..Len(Funcs[Last(callFrames).func].code)
    THEN Funcs[Last(callFrames).func].code[Last(callFrames).ip]
    ELSE Ins("NONE", 0, Null)

\* runtimeError was called in this step
Raised == hist'.errCount = hist.errCount + 1

\* C1: microtasks take effect in FIFO order and one at a time: while run() executes
\* the frames of one task, no frame of a task enqueued earlier is still waiting on
\* the call stack for its body to run or to continue.
C1_MicrotaskFifo ==
    phase = "run" =>
        \A i \in 1..Len(callFrames) : callFrames[i].task >= Last(callFrames).task

\* a CALL whose callee is an async closure of matching arity leaves a promise and a task
C2_AsyncCallStep ==
    LET argCount == NextIns.a
        n == Len(stack)
        callee == stack[n - argCount]
        promise == Len(promises) + 1
        task == Last(microtaskQueue')
    IN (/\ NextIns.op = "CALL"
        /\ n > argCount
        /\ callee.t = "closure"
        /\ Funcs[callee.s].isAsync
        /\ Funcs[callee.s].arity = argCount)
       => /\ stack' = Append(SubSeq(stack, 1, n - argCount - 1), PromiseVal(promise))
          /\ Len(promises') = promise
          /\ promises'[promise].state = "pending"
          /\ callFrames' = [callFrames EXCEPT ![Len(callFrames)].ip = @ + 1]
          /\ log' = log
          /\ Len(microtaskQueue') = Len(microtaskQueue) + 1
          /\ task.kind = "call" /\ task.callee = callee /\ task.promise = promise
          /\ task.args = SubSeq(stack, n - argCount + 1, n)
          /\ task.by = Last(callFrames).fid

\* a frame with a promise enters the call stack only from its call task
C2_BodyStartsInDrain ==
    \A i \in 1..Len(callFrames') :
        (i > Len(callFrames) \/ callFrames'[i].fid # callFrames[i].fid)
        /\ callFrames'[i].asyncPromise # 0 /\ callFrames'[i].ip = 1
        => /\ phase = "drain"
           /\ Head(microtaskQueue).kind = "call"
           /\ Head(microtaskQueue).promise = callFrames'[i].asyncPromise
           /\ \A j \in 1..Len(callFrames) : callFrames[j].fid # callFrames'[i].by

\* C2: CALL on an async closure replaces the callee and its arguments by a fresh
\* pending promise, pushes no frame and runs nothing of the body; the body's frame
\* is created only by the event loop draining the call task, at which time the
\* caller's frame is no longer on the call stack (it returned or was suspended).
C2_AsyncCallDefers == [][C2_AsyncCallStep /\ C2_BodyStartsInDrain]_vars

\* an async body is running, entered through its call task, its promise still pending,
\* after the caller printed what follows the call
C2_Witness ==
    /\ callFrames # <<>>
    /\ Last(callFrames).by # 0
    /\ Last(callFrames).ip > 1
    /\ Funcs[Last(callFrames).func].isAsync
    /\ promises[Last(callFrames).asyncPromise].state = "pending"
    /\ \E k \in 1..Len(log) : log[k].v = Str("A")

\* C3: an error raised in an async function's body with no handler installed leaves
\* the function's promise rejected with the message once interpret has returned.
C3_AsyncErrorRejects ==
    (/\ phase = "done"
     /\ hist.lastErr.branch = "reject"
     /\ hist.lastErr.handlers = 0)
    => /\ promises[hist.lastErr.promise].state = "rejected"
       /\ promises[hist.lastErr.promise].reason = hist.lastErr.msg

\* the step of runtimeError through a handler, with no async frame on the call stack
C4_Step ==
    (/\ phase = "run"
     /\ Raised
     /\ AsyncFrames(Cur) = {}
     /\ exceptionHandlers # <<>>)
    => LET handler == Last(exceptionHandlers)
       IN /\ exceptionHandlers' = Front(exceptionHandlers)
          /\ Len(callFrames') = handler.frameIndex + 1
          /\ Len(stack') = handler.stackSize + 1
          /\ Last(stack') = hist'.lastErr.msg
          /\ Last(callFrames').ip = handler.targetIp
          /\ ~hasError'

\* C4: a throw with no async frame on the call stack and a handler installed removes
\* the top handler and continues at its catch entry: frameIndex+1 frames, stackDepth
\* values plus the thrown one, the current frame's ip at catchIP, no error flag.
C4_CatchUnwinds == [][C4_Step]_vars

\* an error raised by an async frame that has installed the top handler
C5_Step ==
    (/\ phase = "run"
     /\ Raised
     /\ Funcs[Last(callFrames).func].isAsync
     /\ exceptionHandlers # <<>>
     /\ Last(exceptionHandlers).fid = Last(callFrames).fid)
    => /\ hist'.lastErr.branch = "catch"
       /\ ~hasError'
       /\ microtaskQueue' = microtaskQueue
       /\ Last(callFrames').fid = Last(callFrames).fid
       /\ Last(callFrames').ip = Last(exceptionHandlers).targetIp
       /\ Last(stack') = hist'.lastErr.msg

\* C5: an error raised inside a try block of an async function's body is handled by
\* that try's catch: the frame continues at the catch entry with the value on the
\* stack, its promise is not rejected and the error flag is not set.
C5_TryInAsyncCatches == [][C5_Step]_vars

\* the rejection microtask of a frame that has installed the top handler
C6_Step ==
    (/\ phase = "drain"
     /\ microtaskQueue # <<>>
     /\ ~hasError
     /\ Head(microtaskQueue).kind = "resumeErr"
     /\ exceptionHandlers # <<>>
     /\ Last(exceptionHandlers).fid = Head(microtaskQueue).frame.fid)
    => /\ callFrames' # <<>>
       /\ Last(callFrames').fid = Head(microtaskQueue).frame.fid
       /\ Last(callFrames').ip = Last(exceptionHandlers).targetIp
       /\ Last(stack') = Head(microtaskQueue).v
       /\ ~hasError'

\* C6: when a promise awaited inside a try block is rejected, the resume microtask
\* puts the suspended frame back on the call stack at the catch entry with the
\* reason on the stack, and the frame is still there when the microtask ends.
C6_AwaitRejectionCaught == [][C6_Step]_vars

-----------------------------------------------------------------------------
(* Properties of PromiseV1 (specification SpecHost)                           *)

Settled(p) == promises[p].state # "pending"

\* how many times the host function with this id was invoked
Invocations(id) == Cardinality({k \in 1..Len(log) : log[k].ch = "cb" /\ log[k].id = id})

\* the arguments it was invoked with
Arguments(id) == {log[k].v : k \in {k \in 1..Len(log) : log[k].ch = "cb" /\ log[k].id = id}}

Quiescent == microtaskQueue = <<>>

\* no step changes a settled promise
C7_Step ==
    \A p \in Promises :
        Settled(p) => /\ promises'[p].state = promises[p].state
                      /\ promises'[p].value = promises[p].value
                      /\ promises'[p].reason = promises[p].reason

\* C7: once a promise is settled, its state and its value or reason never change,
\* whatever resolve, reject, _resolveInternal or _rejectInternal call comes later.
C7_SettledIsFinal == [][C7_Step]_vars

\* a settled promise on which a later settling call arrived
C7_Witness ==
    \E p \in Promises : Settled(p) /\ promises[p].ignored > 0 /\ promises[p].calls > 1

\* C8: a callback passed to then() is invoked at most once, only when the promise is
\* settled in the matching state and with its value or reason, and exactly once when
\* the promise has settled that way and no microtask is left; whether then() was
\* called before or after the settlement, and however many settling calls were made.
C8_ThenCallbackOnce ==
    \A i \in 1..Len(hist.regs) :
        LET reg == hist.regs[i]
            P == promises[reg.p]
            f == Invocations(2 * i - 1)
            r == Invocations(2 * i)
        IN /\ f <= 1 /\ r <= 1
           /\ f = 1 => reg.onF /\ P.state = "fulfilled" /\ Arguments(2 * i - 1) = {P.value}
           /\ r = 1 => reg.onR /\ P.state = "rejected" /\ Arguments(2 * i) = {P.reason}
           /\ Quiescent /\ reg.onF /\ P.state = "fulfilled" => f = 1
           /\ Quiescent /\ reg.onR /\ P.state = "rejected" => r = 1

\* one callback registered before the settlement and one after it have both run,
\* and a second settling call was made on the promise
C8_Witness ==
    \E i, j \in 1..Len(hist.regs) :
        /\ hist.regs[i].p = hist.regs[j].p
        /\ hist.regs[i].state = "pending" /\ hist.regs[j].state # "pending"
        /\ Invocations(2 * i - 1) + Invocations(2 * i) = 1
        /\ Invocations(2 * j - 1) + Invocations(2 * j) = 1
        /\ promises[hist.regs[i].p].calls > 1

\* C9: a settlement passes through then() where the matching handler is absent: once
\* no microtask is left, the promise returned by p.then(onFulfilled) is rejected with
\* p's reason when p is rejected, and the one returned by p.then(null, onRejected)
\* is fulfilled with p's value when p is fulfilled (the host not settling it itself).
C9_ThenPropagates ==
    \A i \in 1..Len(hist.regs) :
        LET reg == hist.regs[i]
            P == promises[reg.p]
            N == promises[reg.np]
        IN Quiescent /\ N.calls = 0
           => /\ P.state = "rejected" /\ ~reg.onR
                 => N.state = "rejected" /\ N.reason = P.reason
              /\ P.state = "fulfilled" /\ ~reg.onF
                 => N.state = "fulfilled" /\ N.value = P.value

\* C10: a pending promise p resolved with a promise q adopts q: p is pending while q
\* is, and once q is settled and no microtask is left p is settled the same way.
C10_Adoption ==
    \A p \in Promises :
        promises[p].follows # 0 =>
            LET P == promises[p]
                Q == promises[P.follows]
            IN /\ Q.state = "pending" => P.state = "pending"
               /\ Quiescent /\ Q.state = "fulfilled"
                  => P.state = "fulfilled" /\ P.value = Q.value
               /\ Quiescent /\ Q.state = "rejected"
                  => P.state = "rejected" /\ P.reason = Q.reason

-----------------------------------------------------------------------------
(* Properties of closures, generators, the interpret result, timers, calls,   *)
(* throw and property lookup (specification Spec)                             *)

\* the state after the step, as a record
CurNext == Cur'

\* no two Upvalue objects stand for the same local of the same activation
C11_Shared ==
    \A u, w \in 1..Len(heap.upvalues) :
        u # w => \/ heap.upvalues[u].fid # heap.upvalues[w].fid
                 \/ heap.upvalues[u].slot # heap.upvalues[w].slot

\* the value read through a closed upvalue changes only by a write through an upvalue
\* of the same local of the same activation
C11_Step ==
    \A u \in 1..Len(heap.upvalues) :
        (/\ heap.upvalues[u].location = -1
         /\ ReadUpvalue(CurNext, u) # ReadUpvalue(Cur, u))
        => /\ NextIns.op \in {"SET_UPVALUE", "INCREMENT_UPVALUE"}
           /\ heap.upvalues[UpvalueOf(Cur, NextIns.a)].fid = heap.upvalues[u].fid
           /\ heap.upvalues[UpvalueOf(Cur, NextIns.a)].slot = heap.upvalues[u].slot

\* C11: closures share a captured variable exactly when they captured the same local
\* of the same activation: one activation's closures use one cell, and a write through
\* a closure never changes what a closure of another activation reads.
C11_ClosureCells == [][C11_Shared /\ C11_Step]_vars

\* the values a generator body yields, in order: the operands pushed before its YIELDs
YieldValues(code) ==
    LET at == SelectSeq([i \in 1..Len(code) |-> i], LAMBDA i : code[i].op = "YIELD")
    IN [j \in 1..Len(at) |-> code[at[j] - 1].k]

\* the receiver of the method call run() executes next
Receiver == PeekV(Cur, NextIns.a)

\* run() is about to call the given method on a GeneratorObject
CallsGenerator(methodName) ==
    /\ NextIns.op = "CALL_METHOD"
    /\ NextIns.k = Str(methodName)
    /\ IsObject(Cur, Receiver, "generator")

\* the caller's stacks are as before the method call, apart from the receiver and the
\* arguments replaced by the result, and the instruction pointer moved past the call
CallerUntouched ==
    /\ Len(stack') = Len(stack) - NextIns.a
    /\ SubSeq(stack', 1, Len(stack') - 1) = SubSeq(stack, 1, Len(stack) - NextIns.a - 1)
    /\ callFrames' = [callFrames EXCEPT ![Len(callFrames)].ip = @ + 1]
    /\ openUpvalues' = openUpvalues

\* the method call pushed a new object { value: value, done: done }
Pushed(value, done) ==
    /\ Last(stack') = ObjectVal(Len(heap.objects) + 1)
    /\ Len(heap'.objects) = Len(heap.objects) + 1
    /\ heap'.objects[Len(heap.objects) + 1].kind = "js"
    /\ heap'.objects[Len(heap.objects) + 1].properties["value"] = value
    /\ heap'.objects[Len(heap.objects) + 1].properties["done"] = Bool(done)

C12_Step ==
    (CallsGenerator("next") /\ ~heap.objects[Receiver.n].returned)
    => LET values == YieldValues(Funcs[heap.objects[Receiver.n].closure.s].code)
           k == heap.objects[Receiver.n].calls + 1
       IN /\ Pushed(IF k <= Len(values) THEN values[k] ELSE Null, k > Len(values))
          /\ CallerUntouched

\* C12: the k-th next() of a generator whose body yields v1..vn returns
\* {value: vk, done: false} for k <= n and {value: null, done: true} for every k > n,
\* and leaves the caller's value stack, call frames and open upvalues as they were
\* apart from the pushed result.
C12_GeneratorProtocol == [][C12_Step]_vars

\* the generator's own record is as before the call, apart from the count of calls
GeneratorUntouched(g) ==
    /\ heap'.objects[g].coroutine = heap.objects[g].coroutine
    /\ heap'.objects[g].value = heap.objects[g].value

\* the argument of the method call as the script passed it, undefined when absent
Argument == IF NextIns.a >= 1 THEN PeekV(Cur, NextIns.a - 1) ELSE Undef

C13_Step ==
    /\ CallsGenerator("return")
       => /\ Pushed(NullishToNull(Argument), TRUE)
          /\ heap'.objects[Receiver.n].done
          /\ GeneratorUntouched(Receiver.n)
          /\ CallerUntouched
    /\ (CallsGenerator("next") /\ heap.objects[Receiver.n].returned)
       => /\ Pushed(Null, TRUE)
          /\ GeneratorUntouched(Receiver.n)
          /\ CallerUntouched

\* C13: return(v) on a generator marks it done without running any of its
\* instructions and returns {value: v, done: true} (null for an absent v), and every
\* later next() returns {value: null, done: true} without resuming it.
C13_GeneratorReturn == [][C13_Step]_vars

\* C14: interpret returns OK only with an empty call-frame stack, an empty microtask
\* queue, pendingHostOps = 0 and the error flag clear, and it returns RUNTIME_ERROR
\* whenever the error flag is set.
C14_InterpretResult ==
    phase = "done"
    => /\ outcome.result = "OK"
          => /\ callFrames = <<>>
             /\ microtaskQueue = <<>>
             /\ pendingHostOps = 0
             /\ ~hasError
       /\ hasError => outcome.result = "RUNTIME_ERROR"

\* C15: when interpret returns OK its value is the value of the script's top-level
\* RETURN, null when the script returned nothing, whatever ran as microtasks after it.
C15_ScriptValue ==
    (phase = "done" /\ outcome.result = "OK")
    => outcome.value = (IF hist.returned = Absent THEN Null ELSE hist.returned)

\* C16: pendingHostOps is the number of timers armed and neither fired nor cleared
\* (the scripts start no other host operation), and it is never negative.
C16_PendingHostOps == pendingHostOps = Len(timers) /\ pendingHostOps >= 0

NoNewFrame == \A i \in 1..Len(callFrames') : callFrames'[i].fid < hist.nextFid

C18_Step ==
    (/\ NextIns.op \in {"CALL", "NEW"}
     /\ PeekV(Cur, NextIns.a).t = "closure"
     /\ Funcs[PeekV(Cur, NextIns.a).s].arity # NextIns.a)
    => Raised /\ NoNewFrame

\* C18: a call or a construction of a closure with a number of arguments other than
\* its arity raises a runtime error and pushes no frame.
C18_ArityChecked == [][C18_Step]_vars

C19_Step ==
    (NextIns.op = "THROW" /\ Raised /\ hist'.lastErr.branch = "catch")
    => Last(stack') = Last(stack)

\* C19: the value the catch block receives on top of the stack is the very value
\* THROW popped.
C19_CatchGetsThrown == [][C19_Step]_vars

\* the nearest own property of the given name on the prototype chain, undefined
\* when no object of the chain has it
RECURSIVE Lookup(_, _)
Lookup(object, propName) ==
    IF ~IsObject(Cur, object, "vm") THEN Undef
    ELSE IF heap.objects[object.n].properties[propName] # Absent
    THEN heap.objects[object.n].properties[propName]
    ELSE Lookup(heap.objects[object.n].prototype, propName)

C20_Step ==
    (NextIns.op = "GET_PROPERTY_PROTO" /\ IsObject(Cur, PeekV(Cur, 0), "vm"))
    => Last(stack') = Lookup(PeekV(Cur, 0), NextIns.k.s)

\* C20: GET_PROP on a VM object pushes the nearest own property of that name on the
\* prototype chain, and undefined when there is none.
C20_PropertyLookup == [][C20_Step]_vars

-----------------------------------------------------------------------------
(* Properties of classes, loops, destructuring, frames and upvalues           *)

\* C21: a class declared without a constructor is declared and instantiated without
\* a runtime error and its method is dispatched through the prototype:
\* class P { greet(){ return "hi"; } }; console.log(new P().greet()) prints "hi".
C21_DefaultConstructor ==
    (hist.script = "mainClass" /\ phase = "done")
    => /\ hist.errCount = 0
       /\ log = << [ch |-> "log", id |-> 0, v |-> Str("hi")] >>

\* C22: break and continue bind to the innermost enclosing loop of either kind:
\* compiling reports an error exactly when the statement is outside every loop, and
\* otherwise the jump of a break leads to the first instruction after the innermost
\* loop around it and the jump of a continue to where that loop prepares its next
\* iteration (the update of a for loop).
C22_LoopControl ==
    phase = "compiled"
    => /\ (compiler.current.thrown \in {"Illegal break statement.",
                                         "Illegal continue statement."})
          <=> (compiler.program[1].type \in {"BreakStatement", "ContinueStatement"})
       /\ \A k \in DOMAIN compiler.current.jumps :
            \E m \in DOMAIN compiler.current.marks :
               /\ compiler.current.marks[m].id = compiler.current.jumps[k].loop
               /\ compiler.current.jumps[k].at + 1
                    + compiler.current.bytecode[compiler.current.jumps[k].at].a
                  = IF compiler.current.jumps[k].type = "BreakStatement"
                    THEN compiler.current.marks[m].brk
                    ELSE compiler.current.marks[m].cont

\* the frame on top has just executed the declaration  let {x, value} = {x: 1, value: 2}
\* of script mainDestructure or of function d
Declared ==
    /\ phase = "run" /\ callFrames # <<>>
    /\ Last(callFrames).func \in {"mainDestructure", "d"}
    /\ Last(callFrames).ip = Len(Destructure("", 0)) + 1

\* the value of the name a destructuring declaration declared: a local of the frame
\* on top inside a function, a global at script scope
Binding(name, slot) ==
    IF Last(callFrames).func = "d"
    THEN StackAt(Cur, Last(callFrames).stackBase + slot)
    ELSE globals[name]

\* C23: after  let {x, value} = {x: 1, value: 2}, at script scope and inside a
\* function body alike, each declared name holds the property of that name, and
\* the value stack holds the frame's slot 0 and above it exactly the local bindings
\* declared (two inside the function, none at script scope).
C23_Destructuring ==
    Declared
    => /\ Binding("x", 1) = Num(1)
       /\ Binding("value", 2) = Num(2)
       /\ Len(stack) = Last(callFrames).stackBase + 1
                        + (IF Last(callFrames).func = "d" THEN 2 ELSE 0)

\* the microtask runMicrotasks takes next resumes a frame suspended by AWAIT
Resumes ==
    /\ phase = "drain" /\ ~hasError
    /\ microtaskQueue # <<>>
    /\ Head(microtaskQueue).kind = "resume"

C24_Step ==
    Resumes
    => /\ callFrames' # <<>>
       /\ Last(callFrames').fid = Head(microtaskQueue).frame.fid
       /\ stack # <<>>
       /\ Last(stack) = PromiseVal(Head(microtaskQueue).frame.awaited)
       /\ Last(stack') = promises[Head(microtaskQueue).frame.awaited].value
       /\ Len(stack') = Head(microtaskQueue).frame.depth

\* C24: when a frame suspended by AWAIT on a promise is resumed after the fulfilment,
\* it is on top of the call-frame stack, the value taken off the value stack is the
\* awaited promise, the resolved value is on top in its place and the stack is as
\* deep as at the suspension, whatever ran in between.
C24_ResumeRestores == [][C24_Step]_vars

\* the frames suspended by AWAIT and not yet resumed: held by a handler registered
\* on the awaited promise, by the microtask that will call that handler, or by the
\* resume microtask the handler scheduled
Suspended ==
    UNION { { promises[p].onFulfilledCallbacks[i].on.frame :
                i \in {j \in DOMAIN promises[p].onFulfilledCallbacks :
                         promises[p].onFulfilledCallbacks[j].on.k = "awaitRes"} } :
            p \in DOMAIN promises }
    \cup { microtaskQueue[i].cb.on.frame :
             i \in {j \in DOMAIN microtaskQueue :
                      /\ microtaskQueue[j].kind = "thenF"
                      /\ microtaskQueue[j].cb.on.k = "awaitRes"} }
    \cup { microtaskQueue[i].frame :
             i \in {j \in DOMAIN microtaskQueue : microtaskQueue[j].kind = "resume"} }

\* C25: while a frame is suspended by AWAIT, the value-stack slots it held from its
\* stackBase upward at the suspension are neither truncated nor overwritten by
\* another frame or task, however many async functions are suspended at once.
C25_SuspendedSlotsKept ==
    \A frame \in Suspended :
       /\ Len(stack) >= frame.depth
       /\ SubSeq(stack, frame.stackBase + 1, frame.depth) = frame.saved

\* the open-upvalue list that starts at `upvalue`, as the sequence of its members
RECURSIVE List(_)
List(upvalue) == IF upvalue = 0 THEN <<>> ELSE <<upvalue>> \o List(heap.upvalues[upvalue].next)

C26_Step ==
    (NextIns.op = "RETURN" /\ stack # <<>>)
    => /\ callFrames' = Front(callFrames)
       /\ \A i \in DOMAIN List(openUpvalues) :
             heap.upvalues[List(openUpvalues)[i]].location >= Last(callFrames).stackBase
             => /\ heap'.upvalues[List(openUpvalues)[i]].location = -1
                /\ heap'.upvalues[List(openUpvalues)[i]].closed
                     = stack[heap.upvalues[List(openUpvalues)[i]].location + 1]
       /\ Len(stack) > Last(callFrames).stackBase
       /\ stack' = Append(SubSeq(stack, 1, Last(callFrames).stackBase), Last(stack))
       /\ (Funcs[Last(callFrames).func].isAsync /\ Last(callFrames).asyncPromise # 0)
          => /\ Len(microtaskQueue') = Len(microtaskQueue) + 1
             /\ Last(microtaskQueue').kind = "res"
             /\ Last(microtaskQueue').p = Last(callFrames).asyncPromise
             /\ Last(microtaskQueue').v = Last(stack)

\* C26: a RETURN pops the frame, closes every open upvalue at or above the frame's
\* stackBase with the value of its slot, leaves on the value stack the entries below
\* stackBase followed by the return value, and schedules the resolution of the
\* frame's promise with the return value when the frame is async and has one.
C26_ReturnRestores == [][C26_Step]_vars

C27_Step ==
    (/\ phase = "drain" /\ ~hasError
     /\ microtaskQueue # <<>>
     /\ Head(microtaskQueue).kind = "call"
     /\ Head(microtaskQueue).receiver # Absent)
    => /\ callFrames' # <<>>
       /\ Last(callFrames').func = Head(microtaskQueue).callee.s
       /\ StackAt(CurNext, Last(callFrames').stackBase) = Head(microtaskQueue).receiver
       /\ \A i \in DOMAIN Head(microtaskQueue).args :
             StackAt(CurNext, Last(callFrames').stackBase + i) = Head(microtaskQueue).args[i]

\* C27: when CALL_METHOD resolves to an async closure, the frame that later executes
\* the body has the receiver in slot 0 and the arguments in slots 1..arity.
C27_AsyncMethodReceiver == [][C27_Step]_vars

\* C28: the promise linked to the frame of a then() callback (as to the frame of an
\* async function) is settled with the frame's return value once the frame has
\* returned, whether the callback is async or plain, so that a callback chained on
\* it runs: one().then(cb).then(cb2) prints the value cb returned.
C28_ThenCallbackSettles ==
    phase = "done"
    => /\ \A i \in DOMAIN hist.rets :
             hist.rets[i].func # hist.script
             => /\ promises[hist.rets[i].promise].state = "fulfilled"
                /\ promises[hist.rets[i].promise].value = hist.rets[i].v
       /\ hist.script \in {"mainThen", "mainThenAsync"}
          => log = << [ch |-> "log", id |-> 0, v |-> Num(2)] >>

\* the open-upvalue list that starts at `upvalue` is strictly descending in location
Descending(upvalue) ==
    \A i \in 1..(Len(List(upvalue)) - 1) :
        heap.upvalues[List(upvalue)[i]].location
            > heap.upvalues[List(upvalue)[i + 1]].location

\* the list saved on every coroutine is descending as well, whatever its state
C29_SavedOnEveryCoroutine ==
    /\ Descending(openUpvalues)
    /\ \A g \in 1..Len(heap.objects) :
          Descending(heap.objects[g].coroutine.openUpvalues)

\* C29: in every reachable state the open-upvalue list that starts at the VM's head
\* pointer, and the one saved on every suspended coroutine, is strictly descending
\* in stack location.
C29_OpenUpvaluesDescending ==
    /\ Descending(openUpvalues)
    /\ \A g \in 1..Len(heap.objects) :
          heap.objects[g].coroutine.state = "suspended"
          => Descending(heap.objects[g].coroutine.openUpvalues)

\* two open upvalues in the VM's list, the upper one captured first, so that the
\* second capture has walked past the head
C29_Witness ==
    /\ Len(List(openUpvalues)) >= 2
    /\ List(openUpvalues)[1] < List(openUpvalues)[2]

\* the upvalue the next instruction reads or writes is closed
ThroughClosed ==
    /\ NextIns.op \in {"GET_UPVALUE", "SET_UPVALUE"}
    /\ heap.upvalues[UpvalueOf(Cur, NextIns.a)].location = -1

\* a read through a closed upvalue pushes the value held, a write through it leaves
\* the value stack and its property "-1" alone and is what the next read returns, and
\* an upvalue just closed by CLOSE_UPVALUE or RETURN reads as the local's last value
C30_Step ==
    /\ (ThroughClosed /\ NextIns.op = "GET_UPVALUE")
       => /\ stack' = Append(stack, heap.upvalues[UpvalueOf(Cur, NextIns.a)].held)
          /\ heap'.minusOne = heap.minusOne
    /\ (ThroughClosed /\ NextIns.op = "SET_UPVALUE")
       => /\ stack' = stack
          /\ heap'.minusOne = heap.minusOne
          /\ ReadUpvalue(CurNext, UpvalueOf(Cur, NextIns.a)) = Last(stack)
    /\ NextIns.op \in {"CLOSE_UPVALUE", "RETURN"}
       => \A u \in 1..Len(heap.upvalues) :
             (heap.upvalues[u].location # -1 /\ heap'.upvalues[u].location = -1)
             => ReadUpvalue(CurNext, u) = StackAt(Cur, heap.upvalues[u].location)

\* C30: once a captured local's slot has gone out of scope (CLOSE_UPVALUE or RETURN),
\* every read through the upvalue returns the value the local held when it was closed
\* or the value last written through the upvalue, and reads and writes through it do
\* not touch the value stack, whatever the value is, null included.
C30_ClosedUpvalueCell == [][C30_Step]_vars

-----------------------------------------------------------------------------
(* Properties of unwinding, handlers, coroutines, synchronous callbacks and    *)
(* of the compiled code                                                        *)

\* C31: in every reachable state each upvalue of the open-upvalue list has a location
\* below the length of the value stack: whatever truncates the stack (exception
\* unwinding included) closes or removes the upvalues of the slots it discards.
C31_OpenUpvaluesOnStack ==
    \A i \in DOMAIN List(openUpvalues) :
        heap.upvalues[List(openUpvalues)[i]].location < Len(stack)

\* C32: every record on the exception-handler stack was installed by a frame that is
\* still on the call-frame stack, at the index the record names: a frame that leaves
\* by RETURN from inside a try block, or that AWAIT takes off the call stack, leaves
\* no handler record behind.
C32_HandlersOfLiveFrames ==
    \A i \in DOMAIN exceptionHandlers :
        /\ exceptionHandlers[i].frameIndex + 1 \in DOMAIN callFrames
        /\ callFrames[exceptionHandlers[i].frameIndex + 1].fid = exceptionHandlers[i].fid

\* C33: whenever instructions of a generator body execute, the VM's active coroutine
\* is that generator's, also after the body has called next() on another generator
\* and that call has returned.
C33_ActiveCoroutine == ~hist.astray

\* C34: a generator function called with a1..an runs its body, on the first next(),
\* with a1..an in the slots 1..n of its frame (slot 0 holds the callee) and the locals
\* of the body in the slots after them: suspended at its first yield, the coroutine's
\* stack holds the arguments there; gen2(4), which prints its parameter and then its
\* local x = 7, prints 4 and 7.
C34_GeneratorArguments ==
    /\ \A g \in 1..Len(heap.objects) :
          (/\ heap.objects[g].kind = "generator"
           /\ heap.objects[g].calls = 1
           /\ heap.objects[g].coroutine.state = "suspended")
          => /\ Len(heap.objects[g].coroutine.stack) > Len(heap.objects[g].args)
             /\ heap.objects[g].coroutine.stack[1] = heap.objects[g].closure
             /\ \A i \in DOMAIN heap.objects[g].args :
                   heap.objects[g].coroutine.stack[i + 1] = heap.objects[g].args[i]
    /\ (hist.script = "mainGenArgs" /\ phase = "done")
       => log = << [ch |-> "log", id |-> 0, v |-> Num(4)],
                   [ch |-> "log", id |-> 0, v |-> Num(7)] >>

AtCompiled(i) ==
    /\ phase = "run" /\ callFrames # <<>>
    /\ Last(callFrames).func = "compiled" /\ Last(callFrames).ip = i

\* C36: when the SET_LOCAL that initialises a declared local is about to execute, the
\* slot the compiler gave the local is the slot its value occupies (stackBase + slot =
\* stack length - 1), and when the scope-exit POP or CLOSE_UPVALUE of a local is
\* about to execute, that local is the top of the stack; script-level declarations
\* leave nothing on the stack that shifts later block-scoped locals.
C36_LocalSlots ==
    /\ \A k \in DOMAIN compiler.current.decls :
          AtCompiled(compiler.current.decls[k].at)
          => Last(callFrames).stackBase + compiler.current.decls[k].slot = Len(stack) - 1
    /\ \A k \in DOMAIN compiler.current.exits :
          AtCompiled(compiler.current.exits[k].at)
          => Last(callFrames).stackBase + compiler.current.exits[k].slot = Len(stack) - 1

\* C37: after a try/catch statement the compiler's table of locals is what it was
\* before the statement, and when the VM arrives at the instruction after the
\* statement the stack is as deep as it was at the statement's SETUP_TRY, whether
\* the try block completed or the catch block ran, with or without a catch parameter.
C37_TryBalanced ==
    \A k \in DOMAIN compiler.current.tries :
        /\ compiler.current.tries[k].after = compiler.current.tries[k].before
        /\ AtCompiled(compiler.current.tries[k].end)
           => \A i \in DOMAIN hist.tries :
                 (hist.tries[i].func = "compiled"
                  /\ hist.tries[i].at = compiler.current.tries[k].at)
                 => Len(stack) = hist.tries[i].depth

\* C38: compiling a break or continue statement leaves the compiler's table of locals
\* as it was, so that a local of the loop body is still resolved, and still popped
\* at the end of the body, after the statement.
C38_BreakKeepsLocals ==
    \A k \in DOMAIN compiler.current.jumps :
        compiler.current.jumps[k].after = compiler.current.jumps[k].before

\* C39: no execution reads past the end of the bytecode: the instruction to execute
\* next is always one of the function's.
C39_WithinBytecode ==
    (phase = "run" /\ callFrames # <<>>)
    => Last(callFrames).ip \in 1..Len(heap.functions[Last(callFrames).func].code)

\* C40: every constant-pool index and local-slot index emitted as an operand lies in
\* 0..255: a program that needs a larger one is not compiled, an error is thrown.
C40_OperandRange ==
    \A i \in DOMAIN compiler.current.bytecode :
        compiler.current.bytecode[i].op \in OneOperand
        => compiler.current.bytecode[i].a \in 0..MaxIndex

====
